---------------------------- MODULE Spec2Model ----------------------------
(***************************************************************************)
(* Model of the bid-estimation engine of src/app.py: the helpers           *)
(* (parsing, formatting, rounding), the quote cost and schedule-row        *)
(* formulas, the normalization of a job record and the bid-sheet markup.   *)
(*                                                                         *)
(* Text is a sequence of one-character strings, so that strip, split,      *)
(* parse and format are computed character by character.                   *)
(* A Python float is a binary64 value: a sign, a kind and an exact dyadic  *)
(* magnitude m * 2^e (m an exact natural of any size), and every float     *)
(* operation rounds its exact result to 53 significant bits, ties to even. *)
(***************************************************************************)
EXTENDS Integers, Sequences, FiniteSets, TLC

VARIABLES
    job,      \* the job record of the open job window
    ui,       \* what the window holds beside the job: cached line values, flags
    probe,    \* the input a helper is applied to
    result,   \* what the helper returned
    pc        \* the step reached

vars == <<job, ui, probe, result, pc>>

\* Call(f, x) is the call f(x) of a function of the program that recalculates
\* rows, sections or the job; it is defined where all of them are
RECURSIVE Call(_, _)

-----------------------------------------------------------------------------
(* Call by value: Python evaluates an argument once, before the call.      *)
(* (CHOOSE it \in {e : x \in {a}} : TRUE) is e with x standing for the      *)
(* value of a, which is computed once.                                      *)

-----------------------------------------------------------------------------
(* Characters and text *)

Digits == {"0", "1", "2", "3", "4", "5", "6", "7", "8", "9"}

DigitVal(c) ==
    CASE c = "0" -> 0 [] c = "1" -> 1 [] c = "2" -> 2 [] c = "3" -> 3
      [] c = "4" -> 4 [] c = "5" -> 5 [] c = "6" -> 6 [] c = "7" -> 7
      [] c = "8" -> 8 [] c = "9" -> 9

DigitChar(d) ==
    CASE d = 0 -> "0" [] d = 1 -> "1" [] d = 2 -> "2" [] d = 3 -> "3"
      [] d = 4 -> "4" [] d = 5 -> "5" [] d = 6 -> "6" [] d = 7 -> "7"
      [] d = 8 -> "8" [] d = 9 -> "9"

IsDigitChar(c) == c \in Digits

\* the character U+00B2, SUPERSCRIPT TWO: a digit for str.isdigit(), and no
\* decimal digit for int() and float()
SuperscriptTwo == "sup2"

\* a text of one or more of the digits 0 to 9
AllDigits(t0) ==
    (CHOOSE it \in {
                        Len(t) > 0 /\ \A i \in 1..Len(t) : t[i] \in Digits
                      : t \in {t0}} : TRUE)

\* str.isdigit(): every character has the Unicode property of a digit
isdigit(t0) ==
    (CHOOSE it \in {
                        Len(t) > 0 /\ \A i \in 1..Len(t) : t[i] \in Digits \cup {SuperscriptTwo}
                      : t \in {t0}} : TRUE)

SetMin(S) == CHOOSE x \in S : \A y \in S : x <= y
SetMax(S) == CHOOSE x \in S : \A y \in S : x >= y

\* str.strip(): the text between its first and its last non-blank character
strip(t0) ==
    (CHOOSE it \in {
        LET ix == {i \in 1..Len(t) : t[i] # " "}
        IN  IF ix = {} THEN <<>> ELSE SubSeq(t, SetMin(ix), SetMax(ix))
      : t \in {t0}} : TRUE)

\* t.replace(c, "") for the characters c of cs
Without(t, cs) == SelectSeq(t, LAMBDA c : c \notin cs)

\* sum(s) of a list of integers, taken by halves
RECURSIVE SumRange(_, _, _)
SumRange(s, lo, hi) ==
    IF lo > hi THEN 0
    ELSE IF lo = hi THEN s[lo]
    ELSE SumRange(s, lo, (lo + hi) \div 2)
            + SumRange(s, ((lo + hi) \div 2) + 1, hi)

SumSeq(s0) == (CHOOSE it \in {
                                  SumRange(s, 1, Len(s))
                                : s \in {s0}} : TRUE)

\* int(t) of a text of digits
DigitsToNat(t0) ==
    (CHOOSE it \in {
        SumSeq([i \in 1..Len(t) |-> DigitVal(t[i]) * (10 ^ (Len(t) - i))])
      : t \in {t0}} : TRUE)

\* the number of decimal digits of a natural
NumDigits(n) == 1 + Cardinality({k \in 1..9 : n >= 10 ^ k})

\* str(n) of a natural
NatToText(n0) ==
    (CHOOSE it \in {
        [i \in 1..NumDigits(n) |-> DigitChar((n \div (10 ^ (NumDigits(n) - i))) % 10)]
      : n \in {n0}} : TRUE)

\* str(n) of a Python int
IntToText(n0) ==
    (CHOOSE it \in {
                        IF n < 0 THEN <<"-">> \o NatToText(-n) ELSE NatToText(n)
                      : n \in {n0}} : TRUE)

\* index of the first occurrence of character c in t, 0 when absent
FindChar(t0, c) ==
    (CHOOSE it \in {
        LET ix == {i \in 1..Len(t) : t[i] = c}
        IN  IF ix = {} THEN 0 ELSE SetMin(ix)
      : t \in {t0}} : TRUE)

-----------------------------------------------------------------------------
(* Exact naturals of any size: little-endian sequences of limbs below Base, *)
(* without leading zero limbs; <<>> is zero.  The operators without a Val   *)
(* take operands that are already values.                                   *)

LimbBits == 15
Base == 32768

Pow2(r) == 2 ^ r

\* number of bits of a machine natural
BitLen(n) == Cardinality({k \in 0..30 : n >= 2 ^ k})

BTrim(b0) ==
    (CHOOSE it \in {
        LET ix == {i \in 1..Len(b) : b[i] # 0}
        IN  IF ix = {} THEN <<>> ELSE SubSeq(b, 1, SetMax(ix))
      : b \in {b0}} : TRUE)

BFromNat(n0) ==
    (CHOOSE it \in {
                        BTrim([i \in 1..3 |-> (n \div (Base ^ (i - 1))) % Base])
                      : n \in {n0}} : TRUE)

Limb(b, i) == IF i >= 1 /\ i <= Len(b) THEN b[i] ELSE 0

\* the machine natural b holds
BToNat(b0) ==
    (CHOOSE it \in {
        CASE Len(b) <= 3 -> Limb(b, 1) + (Base * Limb(b, 2)) + (Base * Base * Limb(b, 3))
      : b \in {b0}} : TRUE)

\* number of bits of b
BLen(b) == IF b = <<>> THEN 0 ELSE (LimbBits * (Len(b) - 1)) + BitLen(b[Len(b)])

\* bit i of b
BBit(b, i) ==
    IF i < 1 THEN 0
    ELSE (Limb(b, ((i - 1) \div LimbBits) + 1) \div Pow2((i - 1) % LimbBits)) % 2

\* whether one of the bits 1..j of b is set
BLowNonZero(b, j) ==
    /\ j >= 1
    /\ \/ \E i \in 1..(j \div LimbBits) : Limb(b, i) # 0
       \/ Limb(b, (j \div LimbBits) + 1) % Pow2(j % LimbBits) # 0

\* a + b: limb i takes a carry when a lower limb overflows and every limb
\* between passes the carry on
BSum(a, b, i) == Limb(a, i) + Limb(b, i)

BCarry(a, b, i) ==
    \E j \in 1..(i - 1) :
        /\ BSum(a, b, j) >= Base
        /\ \A k \in (j + 1)..(i - 1) : BSum(a, b, k) >= Base - 1

BAdd(a0, b0) ==
    (CHOOSE it \in {
        BTrim([i \in 1..((IF Len(a) > Len(b) THEN Len(a) ELSE Len(b)) + 1) |->
                 (BSum(a, b, i) + (IF BCarry(a, b, i) THEN 1 ELSE 0)) % Base])
      : a \in {a0}, b \in {b0}} : TRUE)

\* b * n for a natural n <= Base: the low and the high halves of the limb
\* products, the high ones one limb up
BMulSmall(b0, n0) ==
    (CHOOSE it \in {
        BAdd([i \in 1..Len(b) |-> (b[i] * n) % Base],
             <<0>> \o [i \in 1..Len(b) |-> (b[i] * n) \div Base])
      : b \in {b0}, n \in {n0}} : TRUE)

\* b * 2^k
BShl(b0, k0) ==
    (CHOOSE it \in {
        IF b = <<>> THEN <<>>
        ELSE [i \in 1..(k \div LimbBits) |-> 0] \o BMulSmall(b, Pow2(k % LimbBits))
      : b \in {b0}, k \in {k0}} : TRUE)

\* floor(b / 2^k)
BShr(b, k) ==
    BTrim([i \in 1..(Len(b) - (k \div LimbBits)) |->
             (Limb(b, i + (k \div LimbBits)) \div Pow2(k % LimbBits))
             + ((Limb(b, i + (k \div LimbBits) + 1) % Pow2(k % LimbBits))
                    * (Base \div Pow2(k % LimbBits)))])

\* column k of a * b: the low halves of the limb products of weight k and the
\* high halves of those of weight k - 1
BMulColumn(a, b, k) ==
    SumSeq([i \in 1..Len(a) |->
              ((Limb(a, i) * Limb(b, (k + 1) - i)) % Base)
              + ((Limb(a, i) * Limb(b, k - i)) \div Base)])

\* a * b
BMul(a0, b0) ==
    (CHOOSE it \in {
        (CHOOSE it \in {
            BAdd([k \in DOMAIN c |-> c[k] % Base],
                 <<0>> \o [k \in DOMAIN c |-> c[k] \div Base])
          : c \in {[k \in 1..(Len(a) + Len(b)) |-> BMulColumn(a, b, k)]}} : TRUE)
      : a \in {a0}, b \in {b0}} : TRUE)

\* long division by a positive d <= Base, limb by limb from the top: the
\* remainder the limbs i.. of b leave, and the quotient limb at i
RECURSIVE BRemFrom(_, _, _)
BRemFrom(b, d, i) ==
    IF i > Len(b) THEN 0 ELSE ((BRemFrom(b, d, i + 1) * Base) + b[i]) % d

BQuotLimb(b, d, i) == ((BRemFrom(b, d, i + 1) * Base) + b[i]) \div d

\* floor(b / d) and b mod d
BDivSmall(b0, d0) ==
    (CHOOSE it \in {
        CASE d >= 1 /\ d <= Base ->
            [q |-> BTrim([i \in 1..Len(b) |-> BQuotLimb(b, d, i)]),
             r |-> BRemFrom(b, d, 1)]
      : b \in {b0}, d \in {d0}} : TRUE)

\* 10^k
RECURSIVE BPow10(_)
BPow10(k) ==
    IF k <= 4 THEN BFromNat(10 ^ k) ELSE BMul(BPow10(k \div 2), BPow10(k - (k \div 2)))
-----------------------------------------------------------------------------
(* binary64 values *)

\* number of significant bits of a binary64
MantBits == 53

\* number of zero bits below the lowest set bit of a non-zero limb
LowZeroBits(n) == Cardinality({k \in 1..LimbBits : n % (2 ^ k) = 0})

\* number of zero bits below the lowest set bit of a non-zero b
LowZeros(b) ==
    LET w == SetMin({i \in 1..Len(b) : b[i] # 0})
    IN  (LimbBits * (w - 1)) + LowZeroBits(b[w])

FZero == [k |-> "fin", neg |-> FALSE, m |-> <<>>, e |-> 0]
FNaN  == [k |-> "nan", neg |-> FALSE, m |-> <<>>, e |-> 0]
FInf(neg) == [k |-> "inf", neg |-> neg, m |-> <<>>, e |-> 0]

\* the float of sign neg and magnitude m * 2^e, in lowest terms (m odd, or zero)
Dy(neg, m0, e0) ==
    (CHOOSE it \in {
        IF t = <<>> THEN FZero
        ELSE [k |-> "fin", neg |-> neg, m |-> BShr(t, LowZeros(t)),
              e |-> e + LowZeros(t)]
      : t \in {m0}, e \in {e0}} : TRUE)

\* the exact value m * 2^e (plus a non-zero remainder below its last bit when
\* sticky) rounded to MantBits significant bits, ties to even
Round53(neg, m0, e0, sticky0) ==
    (CHOOSE it \in {
        LET k    == BLen(t) - MantBits
            kept == BShr(t, k)
            up   == /\ BBit(t, k) = 1
                    /\ (sticky \/ BLowNonZero(t, k - 1) \/ kept[1] % 2 = 1)
        IN  IF k <= 0 THEN Dy(neg, t, e)
            ELSE Dy(neg, IF up THEN BAdd(kept, <<1>>) ELSE kept, e + k)
      : t \in {BTrim(m0)}, e \in {e0}, sticky \in {sticky0}} : TRUE)

\* float(n) of a Python int (exact below 2^53)
FromInt(n0) ==
    (CHOOSE it \in {
        IF n < 0 THEN Round53(TRUE, BFromNat(-n), 0, FALSE)
        ELSE Round53(FALSE, BFromNat(n), 0, FALSE)
      : n \in {n0}} : TRUE)

IsZero(x0) == (CHOOSE it \in {
                                  x.k = "fin" /\ x.m = <<>>
                                : x \in {x0}} : TRUE)

\* x > 0 and x <= 0 as Python compares floats (every comparison with nan is false)
FPos(x0) == (CHOOSE it \in {
                                x.k # "nan" /\ ~x.neg /\ ~(x.k = "fin" /\ x.m = <<>>)
                              : x \in {x0}} : TRUE)
FLeZero(x0) == (CHOOSE it \in {
                                   x.k # "nan" /\ (x.neg \/ (x.k = "fin" /\ x.m = <<>>))
                                 : x \in {x0}} : TRUE)

\* x * y
FMul(x0, y0) ==
    (CHOOSE it \in {
        CASE x.k = "nan" \/ y.k = "nan" -> FNaN
          [] (x.k = "inf" /\ IsZero(y)) \/ (y.k = "inf" /\ IsZero(x)) -> FNaN
          [] x.k = "inf" \/ y.k = "inf" -> FInf(x.neg # y.neg)
          [] OTHER -> Round53(x.neg # y.neg, BMul(x.m, y.m), x.e + y.e, FALSE)
      : x \in {x0}, y \in {y0}} : TRUE)

\* x + y for operands of the same sign
FAdd(x0, y0) ==
    (CHOOSE it \in {
        CASE x.k = "nan" \/ y.k = "nan" -> FNaN
          [] x.k = "inf" /\ y.k = "inf" -> IF x.neg = y.neg THEN x ELSE FNaN
          [] x.k = "inf" -> x
          [] y.k = "inf" -> y
          [] IsZero(x) -> y
          [] IsZero(y) -> x
          [] x.neg = y.neg ->
                Round53(x.neg,
                        BAdd(BShl(x.m, x.e - (IF x.e < y.e THEN x.e ELSE y.e)),
                             BShl(y.m, y.e - (IF x.e < y.e THEN x.e ELSE y.e))),
                        IF x.e < y.e THEN x.e ELSE y.e, FALSE)
      : x \in {x0}, y \in {y0}} : TRUE)

\* the bits the dividend is moved up by, so that the quotient by d has more
\* than MantBits bits
DivShift(m, d) ==
    IF MantBits + 4 + BitLen(d) - BLen(m) > 0
    THEN MantBits + 4 + BitLen(d) - BLen(m) ELSE 0

\* x / d for a positive integer d, at most Base: the division by the float d.0
FDiv(x0, d0) ==
    (CHOOSE it \in {
        CASE x.k = "nan" -> FNaN
          [] x.k = "inf" -> x
          [] x.k = "fin" /\ x.m = <<>> -> FZero
          [] OTHER ->
                (CHOOSE it \in {
                    Round53(x.neg, qr.q, x.e - DivShift(x.m, d), qr.r # 0)
                  : qr \in {BDivSmall(BShl(x.m, DivShift(x.m, d)), d)}} : TRUE)
      : x \in {x0}, d \in {d0}} : TRUE)

\* the integer part of the magnitude of a finite x, and whether a fraction remains
IntPart(x) == IF x.e >= 0 THEN BToNat(BShl(x.m, x.e)) ELSE BToNat(BShr(x.m, -x.e))

HasFrac(x) == x.e < 0

\* int(x): truncation toward zero
Trunc(x0) == (CHOOSE it \in {
                                 IF x.neg THEN -IntPart(x) ELSE IntPart(x)
                               : x \in {x0}} : TRUE)

\* math.ceil(x)
Ceil(x0) ==
    (CHOOSE it \in {
        IF x.neg THEN -IntPart(x)
        ELSE IntPart(x) + (IF HasFrac(x) THEN 1 ELSE 0)
      : x \in {x0}} : TRUE)

-----------------------------------------------------------------------------
(* float(text): Python's decimal literal grammar                            *)
(*   [sign] (digits [. [digits]] | . digits) [e [sign] digits]              *)
(* and the words nan, inf, infinity.  NotFloat stands for the ValueError.   *)

NotFloat == [k |-> "err", neg |-> FALSE, m |-> <<>>, e |-> 0]

\* largest decimal exponent below which D * 10^k (D >= 1) can still be finite
MaxDecExp == 308

\* most digits after the point: 10^MaxFracDigits is a divisor FDiv takes
MaxFracDigits == 4

\* D * 10^net as the nearest binary64 (D a natural below 10^9)
DecimalValue(neg, D0, net0) ==
    (CHOOSE it \in {
        CASE D = 0 -> FZero
          [] D > 0 /\ net >= 0 /\ net > MaxDecExp -> FInf(neg)
          [] D > 0 /\ net >= 0 /\ net <= MaxDecExp ->
                (CHOOSE it \in {
                    IF BLen(b) > 1024 THEN FInf(neg)
                    ELSE Round53(neg, b, 0, FALSE)
                  : b \in {BMul(BFromNat(D), BPow10(net))}} : TRUE)
          [] D > 0 /\ net < 0 /\ net >= -MaxFracDigits ->
                FDiv(Round53(neg, BFromNat(D), 0, FALSE), 10 ^ (-net))
      : D \in {D0}, net \in {net0}} : TRUE)

\* the mantissa part: digits with at most one point and at least one digit
MantissaOk(t0) ==
    (CHOOSE it \in {
        LET ds == Without(t, {"."})
        IN  /\ ds # <<>>
            /\ \A i \in 1..Len(ds) : ds[i] \in Digits
            /\ Len(t) - Len(ds) <= 1
            /\ Len(ds) <= 9
      : t \in {t0}} : TRUE)

FracDigits(t0) ==
    (CHOOSE it \in {
        IF FindChar(t, ".") = 0 THEN 0 ELSE Len(t) - FindChar(t, ".")
      : t \in {t0}} : TRUE)

ExpOk(t0) ==
    (CHOOSE it \in {
        LET u == IF t # <<>> /\ Head(t) \in {"+", "-"} THEN Tail(t) ELSE t
        IN  AllDigits(u) /\ Len(u) <= 4
      : t \in {t0}} : TRUE)

ExpValue(t0) ==
    (CHOOSE it \in {
        IF Head(t) = "-" THEN -DigitsToNat(Tail(t))
        ELSE IF Head(t) = "+" THEN DigitsToNat(Tail(t))
        ELSE DigitsToNat(t)
      : t \in {t0}} : TRUE)

\* float(text)
ParseFloat(text) ==
    (CHOOSE it \in {
        LET neg  == s # <<>> /\ Head(s) = "-"
            u    == IF s # <<>> /\ Head(s) \in {"+", "-"} THEN Tail(s) ELSE s
            pe   == FindChar(u, "e")
            mant == IF pe = 0 THEN u ELSE SubSeq(u, 1, pe - 1)
            expo == IF pe = 0 THEN <<>> ELSE SubSeq(u, pe + 1, Len(u))
        IN  CASE u = <<"n", "a", "n">> -> FNaN
              [] u = <<"i", "n", "f">> -> FInf(neg)
              [] u = <<"i", "n", "f", "i", "n", "i", "t", "y">> -> FInf(neg)
              [] OTHER ->
                    IF MantissaOk(mant) /\ (pe = 0 \/ ExpOk(expo))
                    THEN DecimalValue(neg, DigitsToNat(Without(mant, {"."})),
                                      (IF pe = 0 THEN 0 ELSE ExpValue(expo))
                                        - FracDigits(mant))
                    ELSE NotFloat
      : s \in {strip(text)}} : TRUE)

-----------------------------------------------------------------------------
(* Helpers of src/app.py *)

\* roundup(v) = int(math.ceil(v)) of a finite float
roundup(v0) == (CHOOSE it \in {
                                   CASE v.k = "fin" -> Ceil(v)
                                 : v \in {v0}} : TRUE)

\* safe_float(x) of a text x: blank and unparsable text give 0.0
safe_float(x) ==
    (CHOOSE it \in {
        IF f.k = "err" THEN FZero ELSE f
      : f \in {IF strip(x) = <<>> THEN FZero ELSE ParseFloat(x)}} : TRUE)

\* safe_int(x) of a text x: int(float(x)); int() of nan or inf raises, giving 0
safe_int(x) ==
    (CHOOSE it \in {
                                   IF f.k = "fin" THEN Trunc(f) ELSE 0
                                 : f \in {ParseFloat(x)}} : TRUE)

\* safe_int and safe_float of a Python int go through str(x)
safe_int_of_int(n) == safe_int(IntToText(n))
safe_float_of_int(n) == safe_float(IntToText(n))

\* safe_float of a Python float: float(str(x)) is x (repr round-trips)
safe_float_of_float(x) == x

\* parse_money(txt): only the digit characters count
parse_money(txt0) ==
    (CHOOSE it \in {
        LET digits == SelectSeq(strip(Without(txt, {"$", ","})), IsDigitChar)
        IN  IF txt = <<>> THEN 0
            ELSE IF digits # <<>> THEN DigitsToNat(digits) ELSE 0
      : txt \in {txt0}} : TRUE)

\* f"{iv:,}": the digits in groups of three separated by commas; counted from
\* the right, every fourth character is a comma
Grouped(n0) ==
    (CHOOSE it \in {
        [p \in 1..(Len(ds) + ((Len(ds) - 1) \div 3)) |->
            LET r == (Len(ds) + ((Len(ds) - 1) \div 3)) - p
            IN  IF r % 4 = 3 THEN "," ELSE ds[Len(ds) - (r - (r \div 4))]]
      : ds \in {NatToText(n0)}} : TRUE)

\* money_fmt(v) of a Python int v
money_fmt(v0) ==
    (CHOOSE it \in {
        IF v = 0 THEN <<"$", "0">>
        ELSE IF v < 0 THEN <<"$", "-">> \o Grouped(-v)
        ELSE <<"$">> \o Grouped(v)
      : v \in {v0}} : TRUE)

\* the characters parse_pct keeps: the digits and the first point
PctCleaned(s0) ==
    (CHOOSE it \in {
        LET p == FindChar(s, ".")
        IN  IF p = 0 THEN SelectSeq(s, IsDigitChar)
            ELSE SelectSeq(SubSeq(s, 1, p - 1), IsDigitChar) \o <<".">>
                    \o SelectSeq(SubSeq(s, p + 1, Len(s)), IsDigitChar)
      : s \in {s0}} : TRUE)

\* parse_pct(txt)
parse_pct(txt0) ==
    (CHOOSE it \in {
        (CHOOSE it \in {
            IF cleaned = <<>> THEN FZero
            ELSE (CHOOSE it \in {
                    IF f.k = "err" THEN FZero ELSE f
                  : f \in {ParseFloat(cleaned)}} : TRUE)
          : cleaned \in {PctCleaned(strip(Without(txt, {"%", ","})))}} : TRUE)
      : txt \in {txt0}} : TRUE)

\* round(x * 10^4) of a finite non-negative float, ties to even on the exact
\* value, as the format "%.4f" rounds
Scaled4(x0) ==
    (CHOOSE it \in {
        (CHOOSE it \in {
            IF x.e >= 0 THEN BToNat(BShl(b, x.e))
            ELSE LET ip == BToNat(BShr(b, -x.e))
                 IN  IF /\ BBit(b, -x.e) = 1
                        /\ (BLowNonZero(b, (-x.e) - 1) \/ ip % 2 = 1)
                     THEN ip + 1 ELSE ip
          : b \in {BMulSmall(x.m, 10000)}} : TRUE)
      : x \in {x0}} : TRUE)

\* t.rstrip(c)
rstripChar(t0, c) ==
    (CHOOSE it \in {
        LET ix == {i \in 1..Len(t) : t[i] # c}
        IN  IF ix = {} THEN <<>> ELSE SubSeq(t, 1, SetMax(ix))
      : t \in {t0}} : TRUE)

Pad4(n0) ==
    (CHOOSE it \in {
        (IF n < 10 THEN <<"0", "0", "0">> ELSE IF n < 100 THEN <<"0", "0">>
         ELSE IF n < 1000 THEN <<"0">> ELSE <<>>) \o NatToText(n)
      : n \in {n0}} : TRUE)

\* pct_fmt(v) of a finite non-negative float
pct_fmt(v0) ==
    (CHOOSE it \in {
        CASE v.k = "fin" /\ ~v.neg ->
            (CHOOSE it \in {
                rstripChar(rstripChar(NatToText(n \div 10000) \o <<".">>
                                        \o Pad4(n % 10000), "0"), ".")
                    \o <<"%">>
              : n \in {Scaled4(v)}} : TRUE)
      : v \in {v0}} : TRUE)

\* calc_cost(price, surcharge_pct) of an int price and a float surcharge
calc_cost(price, surcharge_pct) ==
    (CHOOSE it \in {
        p + Trunc(FMul(FromInt(p), FDiv(s, 100)))
      : p \in {safe_int_of_int(price)}, s \in {safe_float_of_float(surcharge_pct)}} : TRUE)
-----------------------------------------------------------------------------
(* Python values.  A dict is a function from its keys, a list a sequence.   *)
(* Where the code asks isinstance, the value carries its type.              *)

Get(d0, k, default) == (CHOOSE it \in {
                                           IF k \in DOMAIN d THEN d[k] ELSE default
                                         : d \in {d0}} : TRUE)
Put(d0, k0, v) ==
    (CHOOSE it \in {
        [x \in DOMAIN d \cup {k} |-> IF x = k THEN v ELSE d[x]]
      : d \in {d0}, k \in {k0}} : TRUE)
SetDefault(d0, k0, v) ==
    (CHOOSE it \in {
                               IF k \in DOMAIN d THEN d ELSE Put(d, k, v)
                             : d \in {d0}, k \in {k0}} : TRUE)
Del(d0, ks0) == (CHOOSE it \in {
                                             [x \in DOMAIN d \ ks |-> d[x]]
                                           : d \in {d0}, ks \in {ks0}} : TRUE)

PyList(s) == [t |-> "list", v |-> s]
PyDict(d) == [t |-> "dict", v |-> d]
PyNone == [t |-> "None", v |-> <<>>]
PyInt == [t |-> "int", v |-> <<>>]
isinstance(x, ty) == x.t = ty

\* the characters of the keys, in the order of their code points
Chars ==
    <<" ", "$", "%", ",", "-", ".",
      "0", "1", "2", "3", "4", "5", "6", "7", "8", "9",
      "A", "B", "C", "D", "E", "F", "G", "H", "I", "J", "K", "L", "M",
      "N", "O", "P", "Q", "R", "S", "T", "U", "V", "W", "X", "Y", "Z",
      "a", "b", "c", "d", "e", "f", "g", "h", "i", "j", "k", "l", "m",
      "n", "o", "p", "q", "r", "s", "t", "u", "v", "w", "x", "y", "z", "|">>

Ord(c) == CHOOSE i \in DOMAIN Chars : Chars[i] = c

\* t < u as Python compares two texts
TextLess(t, u) ==
    \E i \in 1..Len(u) :
        /\ \A j \in 1..(i - 1) : j <= Len(t) /\ t[j] = u[j]
        /\ i - 1 <= Len(t)
        /\ (i > Len(t) \/ Ord(t[i]) < Ord(u[i]))

\* the place of key k among the keys S
Rank(k, S) == Cardinality({x \in S : TextLess(x, k)}) + 1

\* the keys of a dict in the order a loop visits them.  A dict keeps the order
\* in which its keys were stored; the model visits them in the order of the texts.
KeySeq(S0) ==
    (CHOOSE it \in {
        [i \in 1..Cardinality(S) |-> CHOOSE k \in S : Rank(k, S) = i]
      : S \in {S0}} : TRUE)

Range(s0) == (CHOOSE it \in {
                                 {s[i] : i \in DOMAIN s}
                               : s \in {s0}} : TRUE)

-----------------------------------------------------------------------------
(* Variants and frame spec ids *)

BASE == <<"B", "A", "S", "E">>
ALT(n) == <<"A", "L", "T">> \o IntToText(n)

\* variants_for_cc(alts): BASE, then ALT<n> for each listed n
variants_for_cc(alts0) ==
    (CHOOSE it \in {
                              <<BASE>> \o [i \in 1..Len(alts) |-> ALT(alts[i])]
                            : alts \in {alts0}} : TRUE)

\* frame_spec_id(base_code, variant) = base_code "||" variant
frame_spec_id(base_code, variant) == base_code \o <<"|", "|">> \o variant

\* the index of the first "||" in a text, 0 when there is none
FindBars(t0) ==
    (CHOOSE it \in {
        LET ix == {i \in 1..(Len(t) - 1) : t[i] = "|" /\ t[i + 1] = "|"}
        IN  IF ix = {} THEN 0 ELSE SetMin(ix)
      : t \in {t0}} : TRUE)

\* parse_frame_spec_id(spec_id): split at the first "||"
parse_frame_spec_id(spec_id0) ==
    (CHOOSE it \in {
        IF i > 0
        THEN <<strip(SubSeq(spec_id, 1, i - 1)),
               IF strip(SubSeq(spec_id, i + 2, Len(spec_id))) = <<>> THEN BASE
               ELSE strip(SubSeq(spec_id, i + 2, Len(spec_id)))>>
        ELSE <<strip(spec_id), BASE>>
      : spec_id \in {spec_id0}, i \in {FindBars(spec_id0)}} : TRUE)

\* the stripped code of a cost code, "" when the key is missing
CodeOf(cc) == strip(Get(cc, "code", <<>>))

\* build_valid_frame_spec_ids(job), jb the job dict
build_valid_frame_spec_ids(jb) ==
    (CHOOSE it \in {
        UNION { { frame_spec_id(CodeOf(ccs[i]), v) :
                    v \in Range(variants_for_cc(Get(ccs[i], "alts", <<>>))) } :
                i \in { n \in DOMAIN ccs : CodeOf(ccs[n]) # <<>> } }
      : ccs \in {Get(jb, "cost_codes", <<>>)}} : TRUE)

-----------------------------------------------------------------------------
(* Frame schedule rows and materials *)

RowFields ==
    {"spec_mark", "qty", "width", "height", "sqft", "perim", "caulk_passes",
     "caulk_lf", "head_sill", "head", "jamb", "sill", "type", "matl", "finish",
     "notes"}

default_schedule_row == [f \in RowFields |-> <<>>]

T_1_00 == <<"1", ".", "0", "0">>
T_1_50 == <<"1", ".", "5", "0">>
T_8_00 == <<"8", ".", "0", "0">>
T_0_50 == <<"0", ".", "5", "0">>
T_0_0833 == <<"0", ".", "0", "8", "3", "3">>
T_12_00 == <<"1", "2", ".", "0", "0">>
T_45_00 == <<"4", "5", ".", "0", "0">>
T_48_32 == <<"4", "8", ".", "3", "2">>

Material(key, label, basis, factor, rate, unit) ==
    [key |-> key, label |-> label, basis |-> basis, factor |-> factor,
     rate |-> rate, qty |-> <<>>, unit |-> unit]

default_materials ==
    << Material("bracing", "Bracing and Anchoring", "perim_subtotal", T_1_00, T_1_50, "Linear Foot"),
       Material("sheet_metal", "Sheet Metal Membrane Air Barriers", "perim_subtotal", T_1_00, T_1_00, "Linear Foot"),
       Material("flashing", "Flashing and Sheet Metal", "head_sill_subtotal", T_1_00, T_8_00, "Linear Foot"),
       Material("backer_rods", "Backer Rods", "caulk_lf_subtotal", T_1_00, T_0_50, "Linear Foot"),
       Material("sealants", "Joint Sealants", "caulk_lf_subtotal", T_0_0833, T_12_00, "Sausage"),
       Material("tie_back", "Tie Back", "manual", <<>>, T_45_00, "Each"),
       Material("backpans", "Backpans Insulation", "manual", <<>>, T_48_32, "Linear Foot") >>

\* default_schedule_section(spec_id), with the fresh uuid given as id
default_schedule_section(spec_id, id) ==
    [id |-> id, spec_id |-> spec_id,
     rows |-> PyList(<<PyDict(default_schedule_row)>>),
     materials |-> PyList(default_materials),
     install_material_total |-> 0]

\* qty_populated(row)
qty_populated(row) == strip(Get(row, "qty", <<>>)) # <<>>

\* a row left as it is where calc_schedule_row clears the derived fields
RowLeftStale(row) == row

\* the four derived fields blanked, as calc_schedule_row does when qty <= 0
RowCleared(row) ==
    Put(Put(Put(Put(row, "sqft", <<>>), "perim", <<>>), "caulk_lf", <<>>),
        "head_sill", <<>>)

\* the derived fields of a row with qty > 0 (lines 498-505)
RowCalculated(row, qty, wid, hei) ==
    (CHOOSE it \in {
            [f \in DOMAIN row \cup {"sqft", "perim", "caulk_lf", "head_sill"} |->
                CASE f = "sqft" ->
                        IntToText(roundup(FDiv(FMul(FMul(wid, hei), qty), 144)))
                  [] f = "perim" -> perim
                  [] f = "caulk_lf" ->
                        IF FPos(cp)
                        THEN IntToText(roundup(FMul(FromInt(safe_int(perim)), cp)))
                        ELSE <<>>
                  [] f = "head_sill" -> IntToText(roundup(FDiv(FMul(qty, wid), 6)))
                  [] OTHER -> row[f]]
          : perim \in {IntToText(roundup(FMul(FMul(FromInt(2), FAdd(FDiv(wid, 12), FDiv(hei, 12))), qty)))},
            cp \in {safe_float(Get(row, "caulk_passes", <<>>))}} : TRUE)

\* calc_schedule_row(row): the row with its derived fields recomputed
calc_schedule_row(row0) ==
    (CHOOSE it \in {
        IF FLeZero(qty) THEN RowCleared(row)
        ELSE RowCalculated(row, qty, wid, hei)
      : row \in {row0},
        qty \in {safe_float(Get(row0, "qty", <<>>))},
        wid \in {safe_float(Get(row0, "width", <<>>))},
        hei \in {safe_float(Get(row0, "height", <<>>))}} : TRUE)

SubtotalFields == {"qty", "sqft", "perim", "caulk_lf", "head_sill"}

\* schedule_subtotals(rows), rows a list of row dicts
schedule_subtotals(rows0) ==
    (CHOOSE it \in {
        [f \in SubtotalFields |->
            SumSeq([i \in 1..Len(rows) |->
                      IF qty_populated(rows[i])
                      THEN IF f \in DOMAIN rows[i] THEN safe_int(rows[i][f]) ELSE 0
                      ELSE 0])]
      : rows \in {rows0}} : TRUE)

\* material_qty_for_row(material, subtotals)
material_qty_for_row(material, subtotals) ==
    LET basis == IF "basis" \in DOMAIN material THEN material["basis"] ELSE "manual"
    IN  IF basis = "perim_subtotal"
        THEN FMul(FromInt(subtotals["perim"]),
                  safe_float(Get(material, "factor", <<>>)))
        ELSE IF basis = "head_sill_subtotal"
        THEN FMul(FromInt(subtotals["head_sill"]),
                  safe_float(Get(material, "factor", <<>>)))
        ELSE IF basis = "caulk_lf_subtotal"
        THEN FMul(FromInt(subtotals["caulk_lf"]),
                  safe_float(Get(material, "factor", <<>>)))
        ELSE safe_float(Get(material, "qty", <<>>))

\* the sealants material gets the factor 0.0833 when its factor is blank
SealantFactor(m0) ==
    (CHOOSE it \in {
        IF Get(m, "key", "") = "sealants" /\ strip(Get(m, "factor", <<>>)) = <<>>
        THEN Put(m, "factor", T_0_0833) ELSE m
      : m \in {m0}} : TRUE)

\* the cost of one material line: roundup(qty * rate), 0 when the product is 0
MaterialCost(m, subs) ==
    (CHOOSE it \in {
                    IF x.k = "fin" /\ x.m = <<>> THEN 0 ELSE roundup(x)
                  : x \in {FMul(material_qty_for_row(m, subs), safe_float(Get(m, "rate", <<>>)))}} : TRUE)

\* the rows and the materials a section holds, [] when missing, None or not a list
ListOr(section, key) ==
    IF key \in DOMAIN section /\ isinstance(section[key], "list")
    THEN section[key].v ELSE <<>>

\* the rows of a list recalculated, those that are dicts
CalcRows(rows0) ==
    (CHOOSE it \in {
        [i \in 1..Len(rows) |->
            IF isinstance(rows[i], "dict")
            THEN PyDict(Call("calc_schedule_row", rows[i].v)) ELSE rows[i]]
      : rows \in {rows0}} : TRUE)

\* the subtotals of the rows of a list that are dicts
RowSubtotals(rows) ==
    (CHOOSE it \in {
        schedule_subtotals([i \in 1..Len(dicts) |-> dicts[i].v])
      : dicts \in {SelectSeq(rows, LAMBDA r : isinstance(r, "dict"))}} : TRUE)

\* the materials of a list with the sealants factor filled
SealedMaterials(mats0) ==
    (CHOOSE it \in {
                              [i \in 1..Len(mats) |-> SealantFactor(mats[i])]
                            : mats \in {mats0}} : TRUE)

\* the total the materials cost over the rows
MaterialTotal(rows, mats) ==
    (CHOOSE it \in {
        SumSeq([i \in 1..Len(mats) |-> MaterialCost(mats[i], subs)])
      : subs \in {RowSubtotals(rows)}} : TRUE)

\* a mistaken recompute_section_totals, which leaves the section as it is stored
section_left_stale(section0) == section0

\* recompute_section_totals(section): the section with its rows recalculated,
\* the sealants factor filled and install_material_total stored
recompute_section_totals(section0) ==
    (CHOOSE it \in {
        (CHOOSE it \in {
                [k \in DOMAIN section \cup {"install_material_total"} |->
                    CASE k = "rows" /\ rows # <<>> -> PyList(rows)
                      [] k = "materials" /\ mats # <<>> -> PyList(mats)
                      [] k = "install_material_total" -> Call("MaterialTotal", <<rows, mats>>)
                      [] OTHER -> section[k]]
              : rows \in {CalcRows(ListOr(section, "rows"))},
                mats \in {SealedMaterials(ListOr(section, "materials"))}} : TRUE)
      : section \in {section0}} : TRUE)
-----------------------------------------------------------------------------
(* calc_cost applied to a quote's price and surcharge *)

NoJob == <<>>
NoUI == <<>>

MaxPriceTens == 20
MaxSurcharge == 30

Prices == {10 * k : k \in 0..MaxPriceTens} \cup {999, 1000}

SurchargeTexts ==
    {NatToText(n) : n \in 0..MaxSurcharge}
        \cup {<<"3", "3", ".", "3">>, <<"0", ".", "5">>, <<"1", "2", ".", "5">>}

InitCost ==
    /\ probe \in [price : Prices, surcharge : {parse_pct(t) : t \in SurchargeTexts}]
    /\ result = 0
    /\ pc = "entered"
    /\ job = NoJob
    /\ ui = NoUI

ApplyCalcCost ==
    /\ pc = "entered"
    /\ result' = calc_cost(probe.price, probe.surcharge)
    /\ pc' = "calculated"
    /\ UNCHANGED <<job, ui, probe>>

NextCost == ApplyCalcCost

SpecCost == InitCost /\ [][NextCost]_vars

\* floor(p * s / 100) in exact arithmetic, s the exact value of a finite
\* non-negative float and p a natural
ExactFloorPct(p, s) ==
    LET n == BMul(BFromNat(p), s.m)
    IN  IF s.e >= 0 THEN BToNat(BDivSmall(BShl(n, s.e), 100).q)
        ELSE BToNat(BShr(BDivSmall(n, 100).q, -s.e))

\* C8: calc_cost(price, s) = price + floor(price * s / 100) for every
\* non-negative integer price and non-negative surcharge percent s; for
\* instance 1000 at 10% costs 1100 and 999 at 33.3% costs 1332.
C8_CostIsPricePlusFloor ==
    pc = "calculated" =>
        /\ result = probe.price + ExactFloorPct(probe.price, probe.surcharge)
        /\ (probe.price = 1000 /\ probe.surcharge = FromInt(10) => result = 1100)
        /\ (probe.price = 999 /\ probe.surcharge = parse_pct(<<"3", "3", ".", "3">>)
                => result = 1332)

-----------------------------------------------------------------------------
(* calc_schedule_row applied to a schedule row *)

MaxQty == 9
MaxWidth == 7
MaxHeight == 7

Twelve == <<"1", "2">>
Stale == <<"7">>

NonPositiveQtyTexts == {<<>>, <<"0">>, <<"-", "2">>, <<"a", "b", "c">>}
QtyTexts == {NatToText(q) : q \in 1..MaxQty} \cup NonPositiveQtyTexts
WidthTexts == {NatToText(w) : w \in 0..MaxWidth} \cup {Twelve, <<>>}
HeightTexts == {NatToText(h) : h \in 0..MaxHeight} \cup {Twelve}
CaulkPassTexts == {<<>>, <<"0">>, <<"3">>}

InitRow ==
    /\ \E q \in QtyTexts, w \in WidthTexts, h \in HeightTexts,
          cp \in CaulkPassTexts, old \in {<<>>, Stale} :
          probe = [default_schedule_row EXCEPT
                       !.qty = q, !.width = w, !.height = h, !.caulk_passes = cp,
                       !.sqft = old, !.perim = old, !.caulk_lf = old,
                       !.head_sill = old]
    /\ result = 0
    /\ pc = "entered"
    /\ job = NoJob
    /\ ui = NoUI

ApplyCalcRow ==
    /\ pc = "entered"
    /\ result' = calc_schedule_row(probe)
    /\ pc' = "calculated"
    /\ UNCHANGED <<job, ui, probe>>

NextRow == ApplyCalcRow

SpecRow == InitRow /\ [][NextRow]_vars

\* the number a text of digits writes, 0 for the blank text
Num(t) == IF t = <<>> THEN 0 ELSE DigitsToNat(t)

\* ceil(a / b) of naturals, b > 0
CeilDiv(a, b) == (a + b - 1) \div b

\* C9: for a row with qty > 0 and width, height >= 0, sqft is
\* ceil(width * height * qty / 144), perim is ceil(2 * (width/12 + height/12) * qty)
\* and head_sill is ceil(qty * width / 6); the ceiling leaves exact integers
\* unchanged (12 by 12 with qty 1 gives sqft 1) and never rounds down.
C9_RowFormulas ==
    pc = "calculated" /\ probe.qty \notin NonPositiveQtyTexts =>
        LET q == Num(probe.qty)
            w == Num(probe.width)
            h == Num(probe.height)
        IN  /\ result.sqft = IntToText(CeilDiv(w * h * q, 144))
            /\ result.perim = IntToText(CeilDiv(2 * (w + h) * q, 12))
            /\ result.head_sill = IntToText(CeilDiv(q * w, 6))

\* C10: a row whose parsed qty is <= 0 (blank, non-numeric, zero or negative)
\* comes out of calc_schedule_row with sqft, perim, caulk_lf and head_sill all
\* blank, whatever width, height and caulk_passes hold and whatever the derived
\* fields held before.
C10_NonPositiveQtyClearsDerived ==
    pc = "calculated" /\ probe.qty \in NonPositiveQtyTexts =>
        /\ result.sqft = <<>>
        /\ result.perim = <<>>
        /\ result.caulk_lf = <<>>
        /\ result.head_sill = <<>>

C10_StaleNegativeQtyRowCleared ==
    /\ pc = "calculated"
    /\ probe.qty = <<"-", "2">>
    /\ probe.width = <<"7">> /\ probe.height = <<"5">>
    /\ probe.caulk_passes = <<"3">>
    /\ probe.sqft = Stale /\ probe.caulk_lf = Stale
    /\ result.sqft = <<>> /\ result.caulk_lf = <<>>

-----------------------------------------------------------------------------
(* Quotes and bid-sheet normalization *)

\* the {} a normalization puts in an empty quote bucket
EmptyQuote == <<>>

\* the bucket of a code as a dict of variants: a legacy list becomes the BASE
\* list, anything else that is no dict becomes {}
AsVariantDict(b) ==
    IF isinstance(b, "list") THEN (BASE :> b.v)
    ELSE IF isinstance(b, "dict") THEN b.v ELSE <<>>

\* the variants a bucket holds for a cost code that needs the variants needed:
\* a variant without quotes gets the {} placeholder, a variant not needed is deleted
VariantsKept(b0, needed) ==
    (CHOOSE it \in {
        [v \in needed |-> IF v \in DOMAIN b /\ b[v] # <<>> THEN b[v]
                          ELSE <<EmptyQuote>>]
      : b \in {b0}} : TRUE)

\* one cost code's turn in normalize_quotes (lines 360-379)
QuotesForCC(quotes0, cc0) ==
    (CHOOSE it \in {
            IF code = <<>> THEN quotes
            ELSE Put(quotes, code,
                     PyDict(VariantsKept(AsVariantDict(Get(quotes, code, PyDict(<<>>))),
                                         needed)))
          : quotes \in {quotes0},
            code \in {CodeOf(cc0)},
            needed \in {Range(variants_for_cc(Get(cc0, "alts", <<>>)))}} : TRUE)

\* the quotes after the turns of the cost codes i.. of ccs
RECURSIVE QuotesAfter(_, _, _)
QuotesAfter(quotes, ccs, i) ==
    IF i > Len(ccs) THEN quotes
    ELSE QuotesAfter(QuotesForCC(quotes, ccs[i]), ccs, i + 1)

\* the non-blank stripped codes of the cost codes
CodesPresent(jb) ==
    (CHOOSE it \in {
        {CodeOf(ccs[i]) : i \in DOMAIN ccs} \ {<<>>}
      : ccs \in {Get(jb, "cost_codes", <<>>)}} : TRUE)

\* normalize_quotes(job)
normalize_quotes(jb0) ==
    (CHOOSE it \in {
        (CHOOSE it \in {
                Put(jb, "quotes", Del(quotes, DOMAIN quotes \ CodesPresent(jb)))
              : quotes \in {QuotesAfter(Get(jb, "quotes", <<>>), Get(jb, "cost_codes", <<>>), 1)}} : TRUE)
      : jb \in {jb0}} : TRUE)

\* a bid-sheet entry with its missing fields defaulted
BidSheetRow(row) ==
    SetDefault(SetDefault(SetDefault(SetDefault(row,
        "markup_pct", <<>>), "markup_amt", <<>>), "notes", <<>>), "color", "None")

\* normalize_bid_sheet(job)
normalize_bid_sheet(jb0) ==
    (CHOOSE it \in {
        (CHOOSE it \in {
            Put(jb, "bid_sheet",
                [spec_id \in build_valid_frame_spec_ids(jb) |->
                    BidSheetRow(Get(bs, spec_id, <<>>))])
          : bs \in {Get(jb, "bid_sheet", <<>>)}} : TRUE)
      : jb \in {jb0}} : TRUE)

\* the quotes of a (code, variant) bucket, [] when the code or the variant is missing
QuotesOf(jb, code, variant) ==
    Get(Get(Get(jb, "quotes", <<>>), code, PyDict(<<>>)).v, variant, <<>>)

\* the cost a quote counts for: safe_int(q.get("cost", 0) or 0)
QuoteCost(q) == safe_int_of_int(Get(q, "cost", 0))

\* a mistaken bid_sheet_direct_cost that adds every cost, also the negative ones
bid_sheet_direct_cost_of_all(jb, code, variant) ==
    (CHOOSE it \in {
        SumSeq([i \in 1..Len(quotes_list) |-> QuoteCost(quotes_list[i])])
      : quotes_list \in {QuotesOf(jb, code, variant)}} : TRUE)

\* bid_sheet_direct_cost(job, code, variant)
bid_sheet_direct_cost(jb, code, variant) ==
    (CHOOSE it \in {
        SumSeq([i \in 1..Len(quotes_list) |->
                  (CHOOSE it \in {
                      IF c > 0 THEN c ELSE 0
                    : c \in {QuoteCost(quotes_list[i])}} : TRUE)])
      : quotes_list \in {QuotesOf(jb, code, variant)}} : TRUE)

\* bid_sheet_install_material_total(job, spec_id)
bid_sheet_install_material_total(jb, spec_id) ==
    safe_int_of_int(Get(Get(Get(jb, "frame_schedule_rollups", <<>>), spec_id, <<>>),
                        "install_material_total", 0))
-----------------------------------------------------------------------------
(* Frame schedule normalization.  A uuid is a natural number; a fresh one is *)
(* a number above every id of the job.                                      *)

\* the ids the sections stored under one frame-schedule key carry
SectionIds(v) ==
    IF isinstance(v, "list")
    THEN {v.v[i].v["id"] : i \in {n \in DOMAIN v.v :
                                    /\ isinstance(v.v[n], "dict")
                                    /\ "id" \in DOMAIN v.v[n].v}}
    ELSE IF isinstance(v, "dict") /\ "id" \in DOMAIN v.v THEN {v.v["id"]}
    ELSE {}

\* the ids in use in a job: its own, its cost codes' and its sections'
IdsOf(jb0) ==
    (CHOOSE it \in {
            (IF "id" \in DOMAIN jb THEN {jb["id"]} ELSE {})
                \cup {ccs[i]["id"] : i \in {n \in DOMAIN ccs : "id" \in DOMAIN ccs[n]}}
                \cup UNION {SectionIds(fs[k]) : k \in DOMAIN fs}
          : jb \in {jb0},
            ccs \in {Get(jb0, "cost_codes", <<>>)},
            fs \in {Get(jb0, "frame_schedules", <<>>)}} : TRUE)

\* str(uuid.uuid4()): the first of the numbers no id of the job takes
FreshId(jb) == SetMax(IdsOf(jb) \cup {0}) + 1

\* what Python's "or" takes for false: None, [] and {}
Falsy(x) ==
    isinstance(x, "None") \/ ((isinstance(x, "list") \/ isinstance(x, "dict"))
                                /\ x.v = <<>>)

\* one legacy key's turn (lines 572-586): a key without "||" moves to
\* <base>||BASE, merging into the list already stored there; a blank key is dropped
LegacyKeyMoved(fs0, key0) ==
    (CHOOSE it \in {
        IF FindBars(key) > 0 THEN fs
        ELSE IF strip(key) = <<>> THEN Del(fs, {key})
        ELSE IF new_key \in DOMAIN fs
        THEN Del(CASE isinstance(fs[key], "list") /\ isinstance(fs[new_key], "list") ->
                        Put(fs, new_key, PyList(fs[new_key].v \o fs[key].v))
                   [] isinstance(fs[key], "dict") /\ isinstance(fs[new_key], "list") ->
                        Put(fs, new_key, PyList(Append(fs[new_key].v, fs[key])))
                   [] ~isinstance(fs[key], "list") /\ ~isinstance(fs[key], "dict") ->
                        fs,
                 {key})
        ELSE Put(Del(fs, {key}), new_key, fs[key])
      : fs \in {fs0}, key \in {key0}, new_key \in {frame_spec_id(strip(key0), BASE)}} : TRUE)

\* the frame schedules after the turns of the keys i.. of keys
RECURSIVE LegacyMigrated(_, _, _)
LegacyMigrated(fs, keys, i) ==
    IF i > Len(keys) THEN fs
    ELSE LegacyMigrated(LegacyKeyMoved(fs, keys[i]), keys, i + 1)

\* a row over the default row: base.update(r) when r is a dict
NormRow(r) ==
    IF isinstance(r, "dict")
    THEN PyDict([f \in RowFields \cup DOMAIN r.v |->
                    IF f \in DOMAIN r.v THEN r.v[f] ELSE <<>>])
    ELSE PyDict(default_schedule_row)

\* the rows of a section: a list that is missing, no list or empty becomes one
\* default row; every row is laid over the default row
NormRows(s) ==
    IF ListOr(s, "rows") = <<>> THEN PyList(<<PyDict(default_schedule_row)>>)
    ELSE PyList([i \in 1..Len(ListOr(s, "rows")) |-> NormRow(ListOr(s, "rows")[i])])

\* the materials of a section: a list that is missing, no list or empty becomes
\* the default materials; the sealants factor is filled
NormMaterials(s) ==
    IF ListOr(s, "materials") = <<>> THEN PyList(SealedMaterials(default_materials))
    ELSE PyList(SealedMaterials(ListOr(s, "materials")))

\* a mistaken NeedsId, by which every section is given a fresh id at every pass
NeedsIdAlways(s) == TRUE

\* whether a section takes a fresh id: what is no dict is replaced by a default
\* section, and a dict without an id is given one
NeedsId(s) == ~isinstance(s, "dict") \/ "id" \notin DOMAIN s.v

\* one section's turn (lines 610-636), n the fresh id it takes when it needs one
NormSection(s, spec_id, n) ==
    (CHOOSE it \in {
            PyDict(Call("recompute_section_totals",
                [k \in DOMAIN d \cup {"id", "spec_id", "rows", "materials",
                                      "install_material_total"} |->
                    CASE k = "id" -> IF NeedsId(s) THEN n ELSE d["id"]
                      [] k = "spec_id" -> spec_id
                      [] k = "rows" -> NormRows(d)
                      [] k = "materials" -> NormMaterials(d)
                      [] k = "install_material_total" /\ k \notin DOMAIN d -> 0
                      [] OTHER -> d[k]]))
          : d \in {IF isinstance(s, "dict") THEN s.v ELSE default_schedule_section(spec_id, n)}} : TRUE)

\* the list of sections a frame-schedule value stands for (lines 596-607):
\* None and what is no list give [], a legacy dict gives one new section, of
\* id n, that takes its rows and materials
AsSectionList(sections, spec_id, n) ==
    IF isinstance(sections, "list") THEN sections.v
    ELSE IF isinstance(sections, "dict")
    THEN <<PyDict(
            [default_schedule_section(spec_id, n) EXCEPT
                !.rows = IF Falsy(Get(sections.v, "rows", PyList(<<>>)))
                         THEN PyList(<<PyDict(default_schedule_row)>>)
                         ELSE sections.v["rows"],
                !.materials = IF Falsy(Get(sections.v, "materials", PyList(<<>>)))
                              THEN PyList(default_materials)
                              ELSE sections.v["materials"]])>>
    ELSE <<>>

\* how many fresh ids the value stored under a spec id takes
IdsTaken(v) ==
    IF isinstance(v, "list") THEN Cardinality({i \in DOMAIN v.v : NeedsId(v.v[i])})
    ELSE IF isinstance(v, "dict") THEN 1 ELSE 0

\* lines 595-636 for one spec id, n the first fresh id its sections take
NormSpec(v, spec_id, n) ==
    (CHOOSE it \in {
        PyList([i \in 1..Len(secs) |->
                  NormSection(secs[i], spec_id,
                              n + Cardinality({j \in 1..(i - 1) : NeedsId(secs[j])}))])
      : secs \in {AsSectionList(v, spec_id, n)}} : TRUE)

\* a mistaken RollupOf, which adds nothing up
RollupOfNothing(sections) == 0

\* the total of one spec id: the sum of what recompute_section_totals returned
\* for its sections, which is the install_material_total it stored in each
RollupOf(sections) ==
    IF isinstance(sections, "list")
    THEN SumSeq([i \in 1..Len(sections.v) |->
                   IF isinstance(sections.v[i], "dict")
                   THEN safe_int_of_int(sections.v[i].v["install_material_total"])
                   ELSE 0])
    ELSE 0

\* the sections of one spec id as recompute_section_totals leaves them
Recomputed(sections) ==
    IF isinstance(sections, "list")
    THEN PyList([i \in 1..Len(sections.v) |->
                   IF isinstance(sections.v[i], "dict")
                   THEN PyDict(Call("recompute_section_totals", sections.v[i].v))
                   ELSE sections.v[i]])
    ELSE sections

\* compute_frame_schedule_rollups(job)
compute_frame_schedule_rollups(jb0) ==
    (CHOOSE it \in {
        (CHOOSE it \in {
            [x \in DOMAIN jb \cup {"frame_schedule_rollups"} |->
                CASE x = "frame_schedules" -> fs
                  [] x = "frame_schedule_rollups" ->
                        [k \in DOMAIN Get(jb, "frame_schedule_rollups", <<>>)
                                \cup DOMAIN fs |->
                            IF k \in DOMAIN fs
                            THEN [install_material_total |-> RollupOf(fs[k])]
                            ELSE jb["frame_schedule_rollups"][k]]
                  [] OTHER -> jb[x]]
          : fs \in {[k \in DOMAIN Get(jb, "frame_schedules", <<>>) |-> Recomputed(jb["frame_schedules"][k])]}} : TRUE)
      : jb \in {jb0}} : TRUE)

\* what the valid spec id k holds when the sections are normalized: what the
\* migration left under it, [] when it left nothing (lines 588-593)
Kept(fs, k) == IF k \in DOMAIN fs THEN fs[k] ELSE PyList(<<>>)

\* normalize_frame_schedules(job)
normalize_frame_schedules(jb0) ==
    (CHOOSE it \in {
        (CHOOSE it \in {
                Call("compute_frame_schedule_rollups",
                    Put(SetDefault(jb, "frame_schedule_rollups", <<>>),
                        "frame_schedules",
                        [k \in Range(keys) |->
                            NormSpec(Kept(fs, k), k,
                                     n + SumSeq([j \in 1..(Rank(k, Range(keys)) - 1) |->
                                                   IdsTaken(Kept(fs, keys[j]))]))]))
              : keys \in {KeySeq(build_valid_frame_spec_ids(jb))},
                fs \in {LegacyMigrated(Get(jb, "frame_schedules", <<>>), KeySeq(DOMAIN Get(jb, "frame_schedules", <<>>)), 1)},
                n \in {FreshId(jb)}} : TRUE)
      : jb \in {jb0}} : TRUE)
-----------------------------------------------------------------------------
(* Job defaults *)

TextJobFields ==
    {"job_name", "bid_due_date", "project_number", "mwd_po", "addenda_count",
     "job_address", "plan_source", "owner_name", "start_date", "owner_address",
     "completion_date", "architects", "fab_start_date", "project_type",
     "fab_due_date", "building_type", "wage_data", "estimator", "project_status",
     "project_manager", "foreman", "contract_type", "engineer", "frame_colors",
     "general_contractors", "field_shop_hours", "construction_manager",
     "frame_information", "product_vendors"}

BoolJobFields == {"walkthrough", "tax_exemption"}

\* JOB_FIELDS: every key a job gets, "" for a text or date, False for a bool
JOB_FIELDS == TextJobFields \cup BoolJobFields

default_config ==
    [project_managers |-> <<>>, foremen |-> <<>>, estimators |-> <<>>,
     general_contractors |-> <<>>]

DefaultCode == <<"0", "0", " ", "0", "0", " ", "0", "0">>

\* the cost codes with their missing keys defaulted (lines 340-344), n the
\* first fresh id: a cost code without an id takes the next one
CostCodesDefaulted(ccs0, n0) ==
    (CHOOSE it \in {
        [i \in 1..Len(ccs) |->
            SetDefault(SetDefault(SetDefault(SetDefault(ccs[i],
                "id", n + Cardinality({j \in 1..(i - 1) : "id" \notin DOMAIN ccs[j]})),
                "code", DefaultCode), "description", <<>>), "alts", <<>>)]
      : ccs \in {ccs0}, n \in {n0}} : TRUE)

\* lines 329-338: the keys every job has
JobKeysDefaulted(jb0) ==
    (CHOOSE it \in {
        [k \in DOMAIN jb \cup JOB_FIELDS
                \cup {"cost_codes", "quotes", "bid_sheet", "frame_schedules",
                      "frame_schedule_rollups", "config"} |->
            IF k \in DOMAIN jb THEN jb[k]
            ELSE IF k \in BoolJobFields THEN FALSE
            ELSE IF k = "config" THEN default_config
            ELSE <<>>]
      : jb \in {SetDefault(jb0, "id", FreshId(jb0))}} : TRUE)

\* ensure_job_defaults(job)
ensure_job_defaults(jb0) ==
    (CHOOSE it \in {
        Call("normalize_frame_schedules", normalize_bid_sheet(normalize_quotes(
            Put(jb, "cost_codes",
                CostCodesDefaulted(jb["cost_codes"], FreshId(jb))))))
      : jb \in {JobKeysDefaulted(jb0)}} : TRUE)

-----------------------------------------------------------------------------
(* Markup and the bid-sheet total *)

\* _calc_markup_values(cost_value, markup_pct_text, markup_amt_text): a positive
\* amount wins over the percent
calc_markup_values(cost_value0, markup_pct_text, markup_amt_text) ==
    (CHOOSE it \in {
            IF amt_val > 0
            THEN [pct |-> IF cost_value # 0
                          THEN FMul(FDiv(FromInt(amt_val), cost_value), FromInt(100))
                          ELSE FZero,
                  amt |-> amt_val]
            ELSE IF FPos(pct_val)
            THEN [pct |-> pct_val,
                  amt |-> roundup(FMul(FromInt(cost_value), FDiv(pct_val, 100)))]
            ELSE [pct |-> FZero, amt |-> 0]
          : cost_value \in {cost_value0},
            pct_val \in {parse_pct(markup_pct_text)},
            amt_val \in {parse_money(markup_amt_text)}} : TRUE)

\* _format_markup_values(pct_val, amt_val): a zero shows as the empty text
format_markup_values(pct_val, amt_val) ==
    [pct |-> IF IsZero(pct_val) THEN <<>> ELSE pct_fmt(pct_val),
     amt |-> IF amt_val = 0 THEN <<>> ELSE money_fmt(amt_val)]

\* the four passes the bid sheet and the save start with (lines 439-442)
Normalized(jb) ==
    Call("compute_frame_schedule_rollups", Call("normalize_frame_schedules",
        normalize_bid_sheet(normalize_quotes(jb))))

\* what one bid-sheet entry adds to the total (lines 445-456): a positive
\* amount wins over the percent
EntryTotal(jb0, spec_id0) ==
    (CHOOSE it \in {
        (CHOOSE it \in {
            (CHOOSE it \in {
                    IF amt_val > 0 THEN cost_value + amt_val
                    ELSE IF FPos(pct_val)
                    THEN cost_value + roundup(FMul(FromInt(cost_value),
                                                   FDiv(pct_val, 100)))
                    ELSE cost_value
                  : cost_value \in {bid_sheet_direct_cost(jb, bv[1], bv[2]) + bid_sheet_install_material_total(jb, spec_id)},
                    pct_val \in {parse_pct(Get(data, "markup_pct", <<>>))},
                    amt_val \in {parse_money(Get(data, "markup_amt", <<>>))}} : TRUE)
          : bv \in {parse_frame_spec_id(spec_id)}, data \in {jb["bid_sheet"][spec_id]}} : TRUE)
      : jb \in {jb0}, spec_id \in {spec_id0}} : TRUE)

\* the four passes run n times over
RECURSIVE Passes(_, _)
Passes(jb, n) == IF n = 0 THEN jb ELSE Passes(Call("Normalized", jb), n - 1)

\* the job as n runs of the four passes leave it, and the total of its bid
\* sheet (lines 443-457)
BidSheetTotalAfter(jb0, n) ==
    (CHOOSE it \in {
        (CHOOSE it \in {
            [job |-> jb,
             total |-> SumSeq([i \in 1..Len(ids) |-> EntryTotal(jb, ids[i])])]
          : ids \in {KeySeq(DOMAIN jb["bid_sheet"])}} : TRUE)
      : jb \in {Passes(jb0, n)}} : TRUE)

\* compute_bid_sheet_total(job): the job as the passes leave it, and the total
compute_bid_sheet_total(jb0) == BidSheetTotalAfter(jb0, 1)

-----------------------------------------------------------------------------
(* bid_sheet_direct_cost applied to a bucket of quotes *)

MaxQuotes == 3

Code_08_11_00 == <<"0", "8", " ", "1", "1", " ", "0", "0">>
ALT1 == <<"A", "L", "T", "1">>

\* the quotes a bucket may hold: the {} placeholder (no cost), and quotes of
\* zero, negative and positive cost
BucketQuotes == {EmptyQuote, [cost |-> 0], [cost |-> -50], [cost |-> 100], [cost |-> 250]}

Buckets == UNION {[1..n -> BucketQuotes] : n \in 0..MaxQuotes}

\* the (code, variant) asked for: the bucket, a variant and a code the quotes lack
Lookups == {<<Code_08_11_00, BASE>>, <<Code_08_11_00, ALT1>>, <<<<"Z">>, BASE>>}

InitBaseCost ==
    /\ \E qs \in Buckets :
          job = [quotes |-> (Code_08_11_00 :> PyDict(BASE :> qs))]
    /\ \E cv \in Lookups : probe = [code |-> cv[1], variant |-> cv[2]]
    /\ result = 0
    /\ pc = "entered"
    /\ ui = NoUI

ApplyDirectCost ==
    /\ pc = "entered"
    /\ result' = bid_sheet_direct_cost(job, probe.code, probe.variant)
    /\ pc' = "calculated"
    /\ UNCHANGED <<job, ui, probe>>

NextBaseCost == ApplyDirectCost

SpecBaseCost == InitBaseCost /\ [][NextBaseCost]_vars

\* the quotes stored for the (code, variant) asked for
BucketAsked ==
    IF probe.code = Code_08_11_00 /\ probe.variant = BASE
    THEN job.quotes[Code_08_11_00].v[BASE] ELSE <<>>

\* what a quote adds to the base cost: its cost when it has one above 0
Counted(q) == IF "cost" \in DOMAIN q /\ q.cost > 0 THEN q.cost ELSE 0

\* C7: the base cost of a spec id is the sum of the costs of exactly those
\* quotes of its (code, variant) bucket whose cost is above 0; a quote whose
\* cost is zero, negative or missing adds nothing.
C7_BaseCostSumsPositiveCosts ==
    pc = "calculated" =>
        result = SumSeq([i \in 1..Len(BucketAsked) |-> Counted(BucketAsked[i])])

C7_NegativeAndMissingCostSkipped ==
    /\ pc = "calculated"
    /\ probe.code = Code_08_11_00 /\ probe.variant = BASE
    /\ job.quotes[Code_08_11_00].v[BASE] = <<[cost |-> -50], [cost |-> 100], EmptyQuote>>
    /\ result = 100
-----------------------------------------------------------------------------
(* ensure_job_defaults applied to a job record as a job file may hold it *)

Code_08_41_13 == <<"0", "8", " ", "4", "1", " ", "1", "3">>
ALT2 == <<"A", "L", "T", "2">>
StaleCode == <<"Z">>

\* the largest id a job file carries
MaxRawId == 9

CostCode(id, code, alts) ==
    [id |-> id, code |-> code, description |-> <<>>, alts |-> alts]

\* the cost-code lists of the job files: none; one without id and description;
\* one with an alternate; two of the same code and different alternates; two of
\* different codes; one with no key at all
RawCostCodes ==
    { <<>>,
      <<[code |-> Code_08_11_00, alts |-> <<>>]>>,
      <<CostCode(1, Code_08_11_00, <<1>>)>>,
      <<CostCode(1, Code_08_11_00, <<1>>), CostCode(2, Code_08_11_00, <<>>)>>,
      <<CostCode(1, Code_08_11_00, <<>>), CostCode(2, Code_08_41_13, <<>>)>>,
      <<<<>>>> }

Quote(price, cost) == [price |-> price, surcharge |-> FZero, cost |-> cost]

\* the quotes of the job files: the key missing; a legacy list under the code;
\* variants of which one is no alternate of the code; a code no cost code has
RawQuotes ==
    { <<>>,
      [quotes |-> (Code_08_11_00 :> PyList(<<Quote(100, 100)>>))],
      [quotes |-> (Code_08_11_00 :>
                      PyDict(BASE :> <<Quote(100, 100)>> @@ ALT1 :> <<Quote(250, 250)>>
                                @@ ALT2 :> <<Quote(100, 100)>>))],
      [quotes |-> (StaleCode :> PyDict(BASE :> <<Quote(100, 100)>>))] }

Row(qty, width, height) ==
    [default_schedule_row EXCEPT !.qty = qty, !.width = width, !.height = height]

T_10 == <<"1", "0">>
T_20 == <<"2", "0">>
T_36 == <<"3", "6">>
T_48 == <<"4", "8">>
T_50_00 == <<"5", "0", ".", "0", "0">>

\* a manual material: qty of it at 50.00 each
TieBack(qty) ==
    [key |-> "tie_back", label |-> "Tie Back", basis |-> "manual", factor |-> <<>>,
     rate |-> T_50_00, qty |-> qty, unit |-> "Each"]

\* the frame schedules of the job files: the key missing; a legacy dict under
\* the bare code; a section without id, with partial rows; None under a spec
\* id; a whole section, and a spec id no cost code has
RawSchedules ==
    { <<>>,
      [frame_schedules |->
          (Code_08_11_00 :>
              PyDict([rows |-> PyList(<<PyDict(Row(<<"2">>, T_36, T_48))>>)]))],
      [frame_schedules |->
          (frame_spec_id(Code_08_11_00, BASE) :>
              PyList(<<PyDict([rows |-> PyList(<<PyDict([qty |-> <<"2">>, width |-> T_36])>>),
                               materials |-> PyList(<<TieBack(T_10)>>)])>>))],
      [frame_schedules |-> (frame_spec_id(Code_08_11_00, BASE) :> PyNone)],
      [frame_schedules |->
          (frame_spec_id(Code_08_11_00, BASE) :>
              PyList(<<PyDict([default_schedule_section(
                                  frame_spec_id(Code_08_11_00, BASE), MaxRawId - 2)
                               EXCEPT !.rows = PyList(<<PyDict(Row(<<"3">>, T_36, T_48)),
                                                        PyDict(Row(<<>>, T_36, <<>>))>>)])>>)
           @@ frame_spec_id(StaleCode, BASE) :> PyList(<<>>))] }

\* the bid sheets of the job files: the key missing; an entry with a percent
\* only, and an entry of a spec id no cost code has
RawBidSheets ==
    { <<>>,
      [bid_sheet |->
          (frame_spec_id(Code_08_11_00, BASE) :> [markup_pct |-> T_10]
           @@ frame_spec_id(StaleCode, BASE) :> [markup_amt |-> <<"$", "5", "0">>])] }

InitNorm ==
    /\ \E ccs \in RawCostCodes, q \in RawQuotes, fs \in RawSchedules,
          bs \in RawBidSheets :
          job = [id |-> MaxRawId, job_name |-> <<"J">>, cost_codes |-> ccs]
                    @@ q @@ fs @@ bs
    /\ probe = job
    /\ result = 0
    /\ pc = "loaded"
    /\ ui = NoUI

\* the normalization a loaded job goes through
Normalize ==
    /\ pc = "loaded"
    /\ job' = ensure_job_defaults(job)
    /\ pc' = "normalized"
    /\ UNCHANGED <<ui, probe, result>>

\* the normalization run again on the normalized job
NormalizeAgain ==
    /\ pc = "normalized"
    /\ result' = ensure_job_defaults(job)
    /\ pc' = "renormalized"
    /\ UNCHANGED <<job, ui, probe>>

NextNorm == Normalize \/ NormalizeAgain

SpecNorm == InitNorm /\ [][NextNorm]_vars

\* the spec ids of the cost codes of non-blank code
SpecIdsOfCostCodes ==
    UNION { {frame_spec_id(CodeOf(job.cost_codes[i]), v) :
                v \in Range(variants_for_cc(job.cost_codes[i].alts))} :
            i \in {n \in DOMAIN job.cost_codes : CodeOf(job.cost_codes[n]) # <<>>} }

\* C1: after the normalization, for every cost code of non-blank code the
\* variants of quotes[code] are exactly the variants of that cost code's
\* alternates, and the bid sheet has an entry for each spec id code||variant of
\* those variants and for no other spec id; also when two cost codes have the
\* same code and different alternates.
C1_QuotesAndBidSheetHoldExactlyTheVariants ==
    pc = "normalized" =>
        /\ \A i \in DOMAIN job.cost_codes :
              CodeOf(job.cost_codes[i]) # <<>> =>
                  /\ CodeOf(job.cost_codes[i]) \in DOMAIN job.quotes
                  /\ DOMAIN job.quotes[CodeOf(job.cost_codes[i])].v
                        = Range(variants_for_cc(job.cost_codes[i].alts))
                  /\ \A v \in Range(variants_for_cc(job.cost_codes[i].alts)) :
                        frame_spec_id(CodeOf(job.cost_codes[i]), v)
                            \in DOMAIN job.bid_sheet
        /\ DOMAIN job.bid_sheet \subseteq SpecIdsOfCostCodes

\* C2: the normalization run a second time, right after the first, leaves the
\* job as the first run left it: same keys, same buckets, same section ids,
\* same derived fields.
C2_NormalizationIdempotent ==
    pc = "renormalized" => result = job

C2_LegacyJobRenormalizedUnchanged ==
    /\ pc = "renormalized"
    /\ Code_08_11_00 \in DOMAIN Get(probe, "frame_schedules", <<>>)
    /\ isinstance(Get(Get(probe, "quotes", <<>>), Code_08_11_00, PyNone), "list")
    /\ frame_spec_id(StaleCode, BASE) \in DOMAIN Get(probe, "bid_sheet", <<>>)
    /\ job # probe
    /\ frame_spec_id(Code_08_11_00, BASE) \in DOMAIN job.frame_schedules
    /\ Len(job.frame_schedules[frame_spec_id(Code_08_11_00, BASE)].v) = 1
    /\ job.frame_schedules[frame_spec_id(Code_08_11_00, BASE)].v[1].v.id > MaxRawId
    /\ result = job
-----------------------------------------------------------------------------
(* The bid sheet of a job window *)

\* the (code, variant) pairs of the lines the bid sheet shows (lines 1696-1704)
BidLines(jb) ==
    (CHOOSE it \in {
        UNION { { <<CodeOf(ccs[i]), v>> :
                    v \in Range(variants_for_cc(Get(ccs[i], "alts", <<>>))) } :
                i \in { n \in DOMAIN ccs : CodeOf(ccs[n]) # <<>> } }
      : ccs \in {jb["cost_codes"]}} : TRUE)

\* cost_value = base_cost + install_total of a (code, variant) and its spec id
CostValue(jb, code, variant, spec_id) ==
    bid_sheet_direct_cost(jb, code, variant)
        + bid_sheet_install_material_total(jb, spec_id)

\* the two markup displays and the line total a line shows for an entry, at
\* the cost value given
MarkupShown(cost_value, data) ==
    (CHOOSE it \in {
        (CHOOSE it \in {
            [pct |-> display.pct, amt |-> display.amt,
             sov |-> money_fmt(cost_value + val.amt)]
          : display \in {format_markup_values(val.pct, val.amt)}} : TRUE)
      : val \in {calc_markup_values(cost_value, Get(data, "markup_pct", <<>>), Get(data, "markup_amt", <<>>))}} : TRUE)

\* an entry with both markup displays written back into it
MarkupWritten(data, shown) ==
    Put(Put(data, "markup_pct", shown.pct), "markup_amt", shown.amt)

\* what refresh_bid_sheet_ui computes for one line (lines 1705-1716)
LineRefreshed(jb, code, variant) ==
    (CHOOSE it \in {
        (CHOOSE it \in {
                [spec_id |-> frame_spec_id(code, variant), cost_value |-> cost_value,
                 pct |-> shown.pct, amt |-> shown.amt, sov |-> shown.sov]
              : shown \in {MarkupShown(cost_value, Get(jb["bid_sheet"], frame_spec_id(code, variant), <<>>))}} : TRUE)
      : cost_value \in {CostValue(jb, code, variant, frame_spec_id(code, variant))}} : TRUE)

\* refresh_bid_sheet_ui(): the job after the four passes with the markup
\* displays of every line written back, and the lines of the sheet, each with
\* the cost value it caches and the line total it shows
refresh_bid_sheet_ui(jb0) ==
    (CHOOSE it \in {
        (CHOOSE it \in {
            [job |-> Put(jb, "bid_sheet",
                         [id \in DOMAIN jb["bid_sheet"] \cup {l.spec_id : l \in ls} |->
                            IF \E l \in ls : l.spec_id = id
                            THEN MarkupWritten(Get(jb["bid_sheet"], id, <<>>),
                                               CHOOSE l \in ls : l.spec_id = id)
                            ELSE jb["bid_sheet"][id]]),
             lines |-> [id \in {l.spec_id : l \in ls} |->
                          LET l == CHOOSE x \in ls : x.spec_id = id
                          IN  [cost_value |-> l.cost_value, sov |-> l.sov]]]
          : ls \in {{LineRefreshed(jb, l[1], l[2]) : l \in BidLines(jb)}}} : TRUE)
      : jb \in {Call("Normalized", jb0)}} : TRUE)

\* update_bid_sheet_line_item(spec_id): the markup displays and the line total
\* of one line recomputed at the current cost; the cached cost value stays
update_bid_sheet_line_item(jb0, lines0, spec_id0) ==
    (CHOOSE it \in {
        IF spec_id \notin DOMAIN lines THEN [job |-> jb, lines |-> lines]
        ELSE (CHOOSE it \in {
                (CHOOSE it \in {
                    [job |-> Put(jb, "bid_sheet",
                                 Put(jb["bid_sheet"], spec_id, MarkupWritten(data, shown))),
                     lines |-> [lines EXCEPT ![spec_id].sov = shown.sov]]
                  : shown \in {MarkupShown(CostValue(jb, bv[1], bv[2], spec_id), data)}} : TRUE)
              : bv \in {parse_frame_spec_id(spec_id)},
                data \in {jb["bid_sheet"][spec_id]}} : TRUE)
      : jb \in {jb0}, lines \in {lines0}, spec_id \in {spec_id0}} : TRUE)

\* commit of an edit of a markup column (lines 1619-1647): the text goes into
\* the entry, both displays are recomputed at the cached cost value
commit(jb0, lines0, spec_id0, column, text) ==
    (CHOOSE it \in {
        (CHOOSE it \in {
            (CHOOSE it \in {
                [job |-> Put(jb, "bid_sheet",
                             Put(jb["bid_sheet"], spec_id, MarkupWritten(data, shown))),
                 lines |-> [lines EXCEPT ![spec_id].sov = shown.sov]]
              : shown \in {MarkupShown(lines[spec_id].cost_value, data)}} : TRUE)
          : data \in {Put(jb["bid_sheet"][spec_id], column, strip(text))}} : TRUE)
      : jb \in {jb0}, lines \in {lines0}, spec_id \in {spec_id0}} : TRUE)

\* today_str(), whatever the day is
Today == <<"t", "o", "d", "a", "y">>

\* ensure_quote_defaults(q)
ensure_quote_defaults(q) ==
    [k \in DOMAIN q \cup {"date", "vendor", "price", "surcharge", "cost", "notes"} |->
        IF k \in DOMAIN q THEN q[k]
        ELSE IF k \in {"price", "cost"} THEN 0
        ELSE IF k = "surcharge" THEN FZero ELSE <<>>]

\* recalc() of a quote row whose price and surcharge entries hold the texts given
recalc(q0, price_text, sur_text) ==
    (CHOOSE it \in {
        [k \in DOMAIN q |->
            CASE k = "date" -> IF price > 0 /\ strip(q["date"]) = <<>> THEN Today
                               ELSE q["date"]
              [] k = "vendor" -> strip(q["vendor"])
              [] k = "notes" -> strip(q["notes"])
              [] k = "price" -> price
              [] k = "surcharge" -> sur
              [] k = "cost" -> calc_cost(price, sur)
              [] OTHER -> q[k]]
      : q \in {q0}, price \in {parse_money(price_text)}, sur \in {parse_pct(sur_text)}} : TRUE)

\* create_quote_row for every quote (lines 1379-1382): the entries are filled
\* with the formatted price and surcharge, and the row is recalculated
QuoteRowsCreated(jb0) ==
    (CHOOSE it \in {
        Put(jb, "quotes",
            [code \in DOMAIN jb["quotes"] |->
                PyDict([v \in DOMAIN jb["quotes"][code].v |->
                    [i \in 1..Len(jb["quotes"][code].v[v]) |->
                        (CHOOSE it \in {
                            recalc(q, money_fmt(q["price"]), pct_fmt(q["surcharge"]))
                          : q \in {ensure_quote_defaults(jb["quotes"][code].v[v][i])}} : TRUE)]])])
      : jb \in {jb0}} : TRUE)

\* the first quote of a (code, variant) recalculated with a new price text
QuoteEdited(jb0, code, variant, price_text) ==
    (CHOOSE it \in {
        Put(jb, "quotes",
            Put(jb["quotes"], code,
                PyDict(Put(jb["quotes"][code].v, variant,
                           [jb["quotes"][code].v[variant] EXCEPT ![1] =
                               recalc(@, price_text, pct_fmt(@["surcharge"]))]))))
      : jb \in {jb0}} : TRUE)

\* _material_manual_qty_edit of the first material of the first section of a
\* spec id, followed by on_any_change: the qty is stored, the section and the
\* rollups are recomputed
MaterialQtyEdited(jb0, spec_id, qty_text) ==
    (CHOOSE it \in {
        compute_frame_schedule_rollups(
            Put(jb, "frame_schedules",
                Put(jb["frame_schedules"], spec_id,
                    PyList([jb["frame_schedules"][spec_id].v EXCEPT ![1] =
                        PyDict(Put(@.v, "materials",
                                   PyList([@.v["materials"].v EXCEPT ![1] =
                                              Put(@, "qty", strip(qty_text))])))]))))
      : jb \in {jb0}} : TRUE)

BidCode == Code_08_11_00
BidSpec == frame_spec_id(BidCode, BASE)

\* the texts the user types
PriceTexts == {<<"2", "0", "0">>}
MaterialQtyTexts == {T_20}
MarkupPctTexts == {T_10}
MarkupAmtTexts == {<<"5", "0">>, <<"0">>}

\* the most markup edits the user commits
MaxCommits == 2

\* the job of the window: one cost code, one quote of price 100, one schedule
\* section whose only material costs 10 x 50.00
BidJob ==
    ensure_job_defaults(
        [id |-> 1, job_name |-> <<"J">>,
         cost_codes |-> <<CostCode(2, BidCode, <<>>)>>,
         quotes |-> (BidCode :> PyDict(BASE :> <<Quote(100, 100)>>)),
         frame_schedules |->
            (BidSpec :> PyList(<<PyDict([default_schedule_section(BidSpec, 3)
                                          EXCEPT !.materials = PyList(<<TieBack(T_10)>>)])>>))])

\* no markup edit
NoCommit == [column |-> "none", text |-> <<>>]

\* ui: the tab shown; bid_sheet_dirty; whether a refresh is scheduled
\* (bid_sheet_refresh_after); quotes_initialized and frame_initialized; whether
\* a price entry holds the focus; the lines of the bid sheet; and, for the
\* statements below, how many markup edits the user committed, the percent
\* entered last and whether an amount was ever entered.  probe is the edit the
\* commit just made took, NoCommit after any other step.

InitBid ==
    /\ job = BidJob
    /\ ui = [tab |-> "info", dirty |-> TRUE, after |-> FALSE,
             quotes_initialized |-> FALSE, frame_initialized |-> FALSE,
             focus |-> FALSE, lines |-> <<>>, commits |-> 0, pct_entered |-> <<>>,
             amt_entered |-> FALSE]
    /\ probe = NoCommit
    /\ result = 0
    /\ pc = "opened"

\* a price entry that holds the focus loses it right after the tab changed:
\* until then nothing else happens
Settled == ~ui.focus \/ ui.tab = "quotes"

\* handle_quote_change(code, variant) with the tab and the lines of u
handle_quote_change(jb, u0, spec_id) ==
    (CHOOSE it \in {
    IF u.tab # "bid" THEN [job |-> jb, ui |-> [u EXCEPT !.dirty = TRUE]]
    ELSE IF spec_id \in DOMAIN u.lines
    THEN (CHOOSE it \in {
            [job |-> r.job, ui |-> [u EXCEPT !.dirty = TRUE, !.lines = r.lines]]
          : r \in {update_bid_sheet_line_item(jb, u.lines, spec_id)}} : TRUE)
    ELSE [job |-> jb, ui |-> [u EXCEPT !.dirty = TRUE, !.after = TRUE]]
  : u \in {u0}} : TRUE)

\* the user selects a tab: _on_tab_changed.  The first visit of the quotes tab
\* creates the quote rows, the first visit of the frame schedule reconciles
\* the sections; the bid sheet, when dirty, schedules its refresh.
SelectTab(t) ==
    /\ Settled
    /\ t # ui.tab
    /\ job' = IF t = "quotes" /\ ~ui.quotes_initialized
              THEN QuoteRowsCreated(normalize_bid_sheet(normalize_quotes(job)))
              ELSE IF t = "frames" /\ ~ui.frame_initialized
              THEN Call("reconcile_all", job)
              ELSE job
    /\ ui' = [ui EXCEPT !.tab = t,
                        !.quotes_initialized = @ \/ t = "quotes",
                        !.frame_initialized = @ \/ t = "frames",
                        !.dirty = @ \/ (t = "quotes" /\ ~ui.quotes_initialized),
                        !.after = @ \/ (t = "bid" /\ ui.dirty)]
    /\ pc' = "idle"
    /\ probe' = NoCommit
    /\ UNCHANGED result

\* the scheduled refresh fires: refresh_bid_sheet_ui
RefreshBidSheet ==
    /\ Settled
    /\ ui.after
    /\ \E r \in {refresh_bid_sheet_ui(job)} :
          /\ job' = r.job
          /\ ui' = [ui EXCEPT !.lines = r.lines, !.dirty = FALSE, !.after = FALSE]
    /\ pc' = "refreshed"
    /\ probe' = NoCommit
    /\ UNCHANGED result

\* the user types a price into the quote of the line: recalc, handle_quote_change
EditQuote(price_text) ==
    /\ ui.tab = "quotes"
    /\ \E r \in {handle_quote_change(QuoteEdited(job, BidCode, BASE, price_text),
                                      [ui EXCEPT !.focus = TRUE], BidSpec)} :
          job' = r.job /\ ui' = r.ui
    /\ pc' = "idle"
    /\ probe' = NoCommit
    /\ UNCHANGED result

\* the price entry loses the focus: fmt_price_on_blur formats the price and
\* recalculates the quote
BlurPrice ==
    /\ ui.focus
    /\ \E r \in {handle_quote_change(
                     QuoteEdited(job, BidCode, BASE,
                                 money_fmt(parse_money(money_fmt(
                                     job["quotes"][BidCode].v[BASE][1]["price"])))),
                     [ui EXCEPT !.focus = FALSE], BidSpec)} :
          job' = r.job /\ ui' = r.ui
    /\ pc' = IF ui.tab = "bid" /\ BidSpec \in DOMAIN ui.lines THEN "refreshed" ELSE "idle"
    /\ probe' = NoCommit
    /\ UNCHANGED result

\* the user types a qty into the manual material of the section
EditMaterialQty(qty_text) ==
    /\ ui.tab = "frames"
    /\ job' = MaterialQtyEdited(job, BidSpec, qty_text)
    /\ pc' = "idle"
    /\ probe' = NoCommit
    /\ UNCHANGED <<ui, result>>

\* the user commits an edit of a markup column of the line
CommitMarkup(column, text) ==
    /\ Settled
    /\ ui.tab = "bid"
    /\ BidSpec \in DOMAIN ui.lines
    /\ ui.commits < MaxCommits
    /\ \E r \in {commit(job, ui.lines, BidSpec, column, text)} :
          /\ job' = r.job
          /\ ui' = [ui EXCEPT !.lines = r.lines, !.commits = @ + 1,
                              !.pct_entered = IF column = "markup_pct" THEN text ELSE @,
                              !.amt_entered = @ \/ column = "markup_amt"]
    /\ probe' = [column |-> column, text |-> text]
    /\ pc' = "committed"
    /\ UNCHANGED result

NextBid ==
    \/ \E t \in {"quotes", "frames", "bid"} : SelectTab(t)
    \/ RefreshBidSheet
    \/ \E price_text \in PriceTexts : EditQuote(price_text)
    \/ BlurPrice
    \/ \E qty_text \in MaterialQtyTexts : EditMaterialQty(qty_text)
    \/ \E text \in MarkupPctTexts : CommitMarkup("markup_pct", text)
    \/ \E text \in MarkupAmtTexts : CommitMarkup("markup_amt", text)

SpecBid == InitBid /\ [][NextBid]_vars

\* the entry of the line and the markup amount it holds
BidData == job["bid_sheet"][BidSpec]
AmountShown == parse_money(Get(BidData, "markup_amt", <<>>))

\* the percent the entry shows, in units of 1/10000 percent
PercentShown == Scaled4(parse_pct(Get(BidData, "markup_pct", <<>>)))

Abs(n) == IF n < 0 THEN -n ELSE n

\* C3: for an entry whose markup the user entered as a percent, never as an
\* amount, whenever the bid sheet has been refreshed after quote or schedule
\* edits changed the cost value, the markup amount is
\* ceil(current cost_value * pct / 100) and the line total is the current
\* cost_value plus that amount.
C3_PercentMarkupFollowsCost ==
    (/\ pc = "refreshed"
     /\ BidSpec \in DOMAIN ui.lines
     /\ ui.pct_entered # <<>>
     /\ ~ui.amt_entered) =>
        LET cost_value == CostValue(job, BidCode, BASE, BidSpec)
            amount == CeilDiv(cost_value * Num(ui.pct_entered), 100)
        IN  /\ AmountShown = amount
            /\ ui.lines[BidSpec].sov = money_fmt(cost_value + amount)

\* C4: the markup field entered last decides: right after the user commits a
\* percent p > 0 the markup amount is ceil(cost_value * p / 100), and right
\* after the user commits an amount a > 0 the markup amount is a, whatever the
\* other field held before.
C4_LastEnteredMarkupFieldWins ==
    pc = "committed" =>
        /\ (probe.column = "markup_pct" /\ Num(probe.text) > 0) =>
              AmountShown = CeilDiv(ui.lines[BidSpec].cost_value * Num(probe.text), 100)
        /\ (probe.column = "markup_amt" /\ parse_money(probe.text) > 0) =>
              AmountShown = parse_money(probe.text)

\* C5: for a markup whose source is the amount (the amount is the field the
\* user entered), the markup amount is max(0, parsed amount), the percent
\* shown is amount / cost_value * 100 (to the four decimals shown) when
\* cost_value > 0 and 0 when cost_value is 0, and the line total is cost_value
\* plus the amount.
C5_AmountSourcedMarkup ==
    (pc = "committed" /\ probe.column = "markup_amt") =>
        LET cost_value == ui.lines[BidSpec].cost_value
            amount == IF parse_money(probe.text) > 0 THEN parse_money(probe.text) ELSE 0
        IN  /\ AmountShown = amount
            /\ IF cost_value > 0
               THEN 2 * Abs(PercentShown * cost_value - amount * 1000000) <= cost_value
               ELSE PercentShown = 0
            /\ ui.lines[BidSpec].sov = money_fmt(cost_value + amount)
-----------------------------------------------------------------------------
(* The total a job is saved with, against the lines its bid sheet shows *)

\* a code the cost-code dialog stores as typed
CodeWithBars == <<"A", "|", "|", "B">>

TotalCodes == {Code_08_11_00, CodeWithBars}

\* the cost of the one quote of the code; 0 is a quote not priced yet
QuoteCosts == {0, 100, 10000}

\* the qty of the tie backs of the section, at 50.00 each
TieBackQtys == {<<>>, T_10}

\* the bid-sheet entry the job file holds for the line
SavedEntries ==
    { <<>>,
      [markup_pct |-> T_10],
      [markup_pct |-> <<"7">>],
      [markup_amt |-> <<"$", "5", "0">>],
      [markup_pct |-> T_10, markup_amt |-> <<"$", "5", "0">>] }

\* the job of one cost code, one quote, one section and one bid-sheet entry
TotalJob(code, cost, qty, entry) ==
    [id |-> 1, job_name |-> <<"J">>,
     cost_codes |-> <<CostCode(2, code, <<>>)>>,
     quotes |-> (code :> PyDict(BASE :> <<Quote(cost, cost)>>)),
     frame_schedules |->
        (frame_spec_id(code, BASE) :>
            PyList(<<PyDict([default_schedule_section(frame_spec_id(code, BASE), 3)
                             EXCEPT !.materials = PyList(<<TieBack(qty)>>)])>>)),
     bid_sheet |-> (frame_spec_id(code, BASE) :> entry)]

InitTotal ==
    /\ \E code \in TotalCodes, cost \in QuoteCosts, qty \in TieBackQtys,
          entry \in SavedEntries :
          /\ job = ensure_job_defaults(TotalJob(code, cost, qty, entry))
          /\ probe = [code |-> code, cost |-> cost, qty |-> qty, entry |-> entry]
    /\ ui = [lines |-> <<>>]
    /\ result = 0
    /\ pc = "loaded"

\* the bid sheet is shown: refresh_bid_sheet_ui
ShowBidSheet ==
    /\ pc = "loaded"
    /\ \E r \in {refresh_bid_sheet_ui(job)} :
          job' = r.job /\ ui' = [ui EXCEPT !.lines = r.lines]
    /\ pc' = "shown"
    /\ UNCHANGED <<probe, result>>

\* save_only(): the four passes, then compute_bid_sheet_total, which runs the
\* passes again, and the total goes into the job; the job has a name, and the
\* config is the one the defaults gave it
SaveJob ==
    /\ pc \in {"loaded", "shown"}
    /\ \E r \in {BidSheetTotalAfter(job, 2)} :
          job' = Put(r.job, "bid_sheet_total", r.total)
    /\ pc' = "saved"
    /\ UNCHANGED <<ui, probe, result>>

NextTotal == ShowBidSheet \/ SaveJob

SpecTotal == InitTotal /\ [][NextTotal]_vars

\* the sum of the line totals the bid sheet shows
LineTotals ==
    LET ids == KeySeq(DOMAIN ui.lines)
    IN  SumSeq([i \in 1..Len(ids) |-> parse_money(ui.lines[ids[i]].sov)])

\* C6: the job total compute_bid_sheet_total returns is the sum, over the
\* bid-sheet entries, of the line total cost_value + markup amount, with
\* cost_value = base_cost + install rollup; the cost code "08 11 00" BASE with
\* one quote of cost 10000, install rollup 500 and markup percent 10 has the
\* line total 11550 and the job total 11550.
C6_TotalIsSumOfLineTotals ==
    (pc = "saved" /\ ui.lines # <<>>) =>
        /\ job["bid_sheet_total"] = LineTotals
        /\ probe = [code |-> Code_08_11_00, cost |-> 10000, qty |-> T_10,
                    entry |-> [markup_pct |-> T_10]] =>
              /\ ui.lines[BidSpec] = [cost_value |-> 10500,
                                      sov |-> <<"$", "1", "1", ",", "5", "5", "0">>]
              /\ job["bid_sheet_total"] = 11550
-----------------------------------------------------------------------------
(* schedule_subtotals applied to the rows of a section *)

MaxSectionRows == 2

\* the rows a section can hold: qty positive, zero, negative, blank and not a
\* number; two widths; a row whose derived fields hold values of an earlier qty
SectionRowChoices ==
    {Row(q, w, Twelve) : q \in {<<"2">>} \cup NonPositiveQtyTexts, w \in {Twelve, T_36}}
    \cup {[Row(q, Twelve, Twelve) EXCEPT !.sqft = Stale, !.perim = Stale,
                                          !.caulk_lf = Stale, !.head_sill = Stale]
            : q \in NonPositiveQtyTexts}

InitSubtotals ==
    /\ \E n \in 1..MaxSectionRows :
          probe \in [1..n -> SectionRowChoices]
    /\ result = 0
    /\ pc = "entered"
    /\ job = NoJob
    /\ ui = NoUI

\* every row of a list of row dicts recalculated
RowsCalculated(rows0) ==
    (CHOOSE it \in {
        [i \in 1..Len(rows) |-> calc_schedule_row(rows[i])]
      : rows \in {rows0}} : TRUE)

\* the rows are recalculated and summed, as recompute_section_totals does
SumRows ==
    /\ pc = "entered"
    /\ result' = schedule_subtotals(RowsCalculated(probe))
    /\ pc' = "summed"
    /\ UNCHANGED <<job, ui, probe>>

NextSubtotals == SumRows

SpecSubtotals == InitSubtotals /\ [][NextSubtotals]_vars

\* a list without its i-th element
Removed(s, i) == SubSeq(s, 1, i - 1) \o SubSeq(s, i + 1, Len(s))

\* C11: a schedule row whose qty is <= 0 contributes nothing to any of the five
\* subtotals qty, sqft, perim, caulk_lf and head_sill: the subtotals of the rows
\* equal the subtotals of the rows with that row removed.
C11_NonPositiveQtyRowAddsNothing ==
    pc = "summed" =>
        \A i \in 1..Len(probe) :
            FLeZero(safe_float(probe[i].qty)) =>
                result = schedule_subtotals(RowsCalculated(Removed(probe, i)))
-----------------------------------------------------------------------------
(* the cost of one install material over the subtotals of a section *)

T_1_1 == <<"1", ".", "1">>

Bases == {"perim_subtotal", "head_sill_subtotal", "caulk_lf_subtotal", "manual"}
FactorTexts == {T_1_00, T_1_1, T_0_0833, <<"0">>, <<>>}
RateTexts == {T_1_50, T_1_00, T_12_00, <<>>}
ManualQtyTexts == {<<>>, <<"3">>, T_1_1}

\* the subtotals of the rows of a section
SubtotalChoices ==
    { [perim |-> 100, head_sill |-> 20, caulk_lf |-> 60],
      [perim |-> 50, head_sill |-> 7, caulk_lf |-> 0],
      [perim |-> 0, head_sill |-> 0, caulk_lf |-> 0] }

InitMaterial ==
    /\ \E key \in {"bracing", "sealants"}, basis \in Bases, factor \in FactorTexts,
          rate \in RateTexts, qty \in ManualQtyTexts, subs \in SubtotalChoices :
          probe = [material |-> [Material(key, <<>>, basis, factor, rate, "Linear Foot")
                                   EXCEPT !.qty = qty],
                   subs |-> subs]
    /\ result = 0
    /\ pc = "entered"
    /\ job = NoJob
    /\ ui = NoUI

\* one turn of the loop over the materials: the sealants factor is filled and
\* the cost is computed
ApplyMaterialCost ==
    /\ pc = "entered"
    /\ result' = MaterialCost(SealantFactor(probe.material), probe.subs)
    /\ pc' = "costed"
    /\ UNCHANGED <<job, ui, probe>>

NextMaterial == ApplyMaterialCost

SpecMaterial == InitMaterial /\ [][NextMaterial]_vars

\* 10^d times the number a decimal text of at most d decimals writes
Dec(t, d) ==
    LET p == FindChar(t, ".")
        whole == IF p = 0 THEN t ELSE SubSeq(t, 1, p - 1)
        frac == IF p = 0 THEN <<>> ELSE SubSeq(t, p + 1, Len(t))
    IN  Num(whole) * 10 ^ d + Num(frac) * 10 ^ (d - Len(frac))

\* 10^4 times the quantity of the material: the subtotal of its basis times
\* the factor, or its own qty when the basis is manual
Quantity4(m, subs) ==
    CASE m.basis = "perim_subtotal" -> subs.perim * Dec(m.factor, 4)
      [] m.basis = "head_sill_subtotal" -> subs.head_sill * Dec(m.factor, 4)
      [] m.basis = "caulk_lf_subtotal" -> subs.caulk_lf * Dec(m.factor, 4)
      [] OTHER -> Dec(m.qty, 4)

\* C12: the cost of a material is 0 when quantity * rate is 0 and
\* ceil(quantity * rate) otherwise, the quantity being the perim, head_sill or
\* caulk_lf subtotal times the factor, or the material's own qty for the basis
\* manual; a perim_subtotal material with factor 1.00, rate 1.50 and perim
\* subtotal 100 costs 150.
C12_MaterialCostIsCeilOfQtyTimesRate ==
    pc = "costed" =>
        LET m == SealantFactor(probe.material)
        IN  /\ result = CeilDiv(Quantity4(m, probe.subs) * Dec(m.rate, 2), 1000000)
            /\ (/\ m.basis = "perim_subtotal" /\ m.factor = T_1_00
                /\ m.rate = T_1_50 /\ probe.subs.perim = 100) => result = 150
-----------------------------------------------------------------------------
(* The job window with its tabs open: cost codes, quotes and frame          *)
(* schedules are edited, undone and saved                                    *)

\* refresh_cc_tree(): the cost codes sorted by code, equal codes in their order
SortedByCode(ccs0) ==
    (CHOOSE it \in {
        [p \in 1..Len(ccs) |->
            ccs[CHOOSE i \in 1..Len(ccs) :
                  Cardinality({j \in 1..Len(ccs) :
                      \/ TextLess(Get(ccs[j], "code", <<>>), Get(ccs[i], "code", <<>>))
                      \/ (Get(ccs[j], "code", <<>>) = Get(ccs[i], "code", <<>>) /\ j < i)})
                    = p - 1]]
      : ccs \in {ccs0}} : TRUE)

\* refresh_quotes_ui(full=True) once the quotes tab was shown: the quotes and
\* the bid sheet are normalized and a row is created for every quote
refresh_quotes_ui(jb) == QuoteRowsCreated(normalize_bid_sheet(normalize_quotes(jb)))

\* what reconcile_all() does to the job
reconcile_all(jb) ==
    Call("compute_frame_schedule_rollups", Call("normalize_frame_schedules", jb))

\* the end of every cost-code handler in a window whose quotes tab and frame
\* schedule tab were shown or not: normalize_quotes, normalize_frame_schedules,
\* refresh_cc_tree; refresh_quotes_ui, which returns at once while the quotes
\* tab was never shown; maybe_refresh_frame_ui, which returns at once while
\* the frame schedule tab was never shown
cost_codes_changed_on(jb0, quotes_initialized, frame_initialized) ==
    (CHOOSE it \in {
        (CHOOSE it \in {
            IF frame_initialized THEN Call("reconcile_all", q) ELSE q
          : q \in {IF quotes_initialized THEN Call("refresh_quotes_ui", jb) ELSE jb}} : TRUE)
      : jb \in {(CHOOSE it \in {
                    Put(n, "cost_codes", SortedByCode(n["cost_codes"]))
                  : n \in {Call("normalize_frame_schedules", normalize_quotes(jb0))}} : TRUE)}} : TRUE)

\* a mistaken end of the cost-code handlers, which normalizes nothing
cost_codes_left_as_edited(jb0) == jb0

\* the end of every cost-code handler: normalize_quotes, normalize_frame_schedules,
\* refresh_cc_tree, refresh_quotes_ui, maybe_refresh_frame_ui
cost_codes_changed(jb0) ==
    (CHOOSE it \in {
        Call("reconcile_all", Call("refresh_quotes_ui",
            Put(jb, "cost_codes", SortedByCode(jb["cost_codes"]))))
      : jb \in {Call("normalize_frame_schedules", normalize_quotes(jb0))}} : TRUE)

\* the quotes of old_code moved under new_code (lines 892-898): where new_code
\* has quotes already, a variant of old_code is stored only if new_code lacks it
QuotesMigrated(quotes0, old_code, new_code) ==
    (CHOOSE it \in {
        IF old_code \notin DOMAIN quotes THEN quotes
        ELSE IF new_code \in DOMAIN quotes
        THEN Del(Put(quotes, new_code,
                     PyDict([v \in DOMAIN quotes[new_code].v \cup DOMAIN quotes[old_code].v |->
                                IF v \in DOMAIN quotes[new_code].v
                                THEN quotes[new_code].v[v] ELSE quotes[old_code].v[v]])),
                 {old_code})
        ELSE Put(Del(quotes, {old_code}), new_code, quotes[old_code])
      : quotes \in {quotes0}} : TRUE)

\* one spec id's turn in the loop of lines 900-909
SpecMigrated(fs0, spec_id0, old_code, new_code) ==
    (CHOOSE it \in {
        IF parse_frame_spec_id(spec_id)[1] # old_code THEN fs
        ELSE IF new_spec \in DOMAIN fs
        THEN Del(Put(fs, new_spec, PyList(fs[new_spec].v \o fs[spec_id].v)), {spec_id})
        ELSE Put(Del(fs, {spec_id}), new_spec, fs[spec_id])
      : fs \in {fs0}, spec_id \in {spec_id0},
        new_spec \in {frame_spec_id(new_code, parse_frame_spec_id(spec_id0)[2])}} : TRUE)

\* the frame schedules after the turns of the spec ids i.. of keys
RECURSIVE SpecsMigrated(_, _, _, _, _)
SpecsMigrated(fs, keys, i, old_code, new_code) ==
    IF i > Len(keys) THEN fs
    ELSE SpecsMigrated(SpecMigrated(fs, keys[i], old_code, new_code), keys, i + 1,
                       old_code, new_code)

\* migrate_code_key(old_code, new_code)
migrate_code_key(jb0, old_code0, new_code0) ==
    (CHOOSE it \in {
        IF old_code = <<>> \/ old_code = new_code THEN jb
        ELSE Put(Put(jb, "quotes", QuotesMigrated(jb["quotes"], old_code, new_code)),
                 "frame_schedules",
                 SpecsMigrated(jb["frame_schedules"], KeySeq(DOMAIN jb["frame_schedules"]),
                               1, old_code, new_code))
      : jb \in {jb0}, old_code \in {strip(old_code0)}, new_code \in {strip(new_code0)}} : TRUE)

\* find_cc_by_id(cc_id): the place of the first cost code of that id
find_cc_by_id(jb, cc_id) ==
    SetMin({i \in DOMAIN jb["cost_codes"] : Get(jb["cost_codes"][i], "id", 0) = cc_id})

\* commit() of the inline edit of the code column, up to migrate_code_key
\* (lines 936-945)
code_edited(jb0, cc_id, text) ==
    (CHOOSE it \in {
        migrate_code_key(
            Put(jb, "cost_codes", [jb["cost_codes"] EXCEPT ![i] = Put(@, "code", val)]),
            Get(jb["cost_codes"][i], "code", <<>>), val)
      : jb \in {jb0}, i \in {find_cc_by_id(jb0, cc_id)}, val \in {strip(text)}} : TRUE)

\* commit() of the inline edit of the code column (lines 934-954)
code_committed(jb0, cc_id, text) ==
    Call("cost_codes_changed", code_edited(jb0, cc_id, text))

\* t.split(","): the pieces of a text between its commas
RECURSIVE SplitComma(_)
SplitComma(t) ==
    (CHOOSE it \in {
        IF i = 0 THEN <<t>>
        ELSE <<SubSeq(t, 1, i - 1)>> \o SplitComma(SubSeq(t, i + 1, Len(t)))
      : i \in {FindChar(t, ",")}} : TRUE)

\* sorted(s) of a set of integers
RECURSIVE SortedSeq(_)
SortedSeq(S) == IF S = {} THEN <<>> ELSE <<SetMin(S)>> \o SortedSeq(S \ {SetMin(S)})

\* the parts of parse_alts(text): the stripped pieces between the commas
\* that are not blank
AltsParts(text) ==
    (CHOOSE it \in {
        SelectSeq([i \in DOMAIN pieces |-> strip(pieces[i])], LAMBDA p : p # <<>>)
      : pieces \in {IF strip(text) = <<>> THEN <<>> ELSE SplitComma(strip(text))}} : TRUE)

\* parse_alts(text) raises ValueError: int(p) is called on a part that
\* isdigit() accepts and that holds a character that is no decimal digit
parse_alts_raises(text) ==
    \E p \in Range(AltsParts(text)) : isdigit(p) /\ ~AllDigits(p)

\* parse_alts(text) where it returns: the numbers from 1 to 25 the text lists,
\* once each, ascending
parse_alts(text) ==
    (CHOOSE it \in {
        SortedSeq({n \in {DigitsToNat(parts[i]) :
                            i \in {j \in DOMAIN parts : isdigit(parts[j])}} :
                     1 <= n /\ n <= 25})
      : parts \in {AltsParts(text)}} : TRUE)

\* commit() of the inline edit of the alternates column, up to parse_alts
\* (line 947)
alts_edited(jb0, cc_id, text) ==
    (CHOOSE it \in {
        Put(jb, "cost_codes",
            [jb["cost_codes"] EXCEPT ![i] = Put(@, "alts", parse_alts(text))])
      : jb \in {jb0}, i \in {find_cc_by_id(jb0, cc_id)}} : TRUE)

\* commit() of the inline edit of the alternates column
alts_committed(jb0, cc_id, text) ==
    Call("cost_codes_changed", alts_edited(jb0, cc_id, text))

\* add_cost_code(): the new cost code joins the list (lines 976-977)
cost_code_appended(jb0) ==
    (CHOOSE it \in {
        Put(jb, "cost_codes",
            Append(jb["cost_codes"], CostCode(FreshId(jb), DefaultCode, <<>>)))
      : jb \in {jb0}} : TRUE)

\* add_cost_code() without the inline edit it opens
cost_code_added(jb0) ==
    Call("cost_codes_changed", cost_code_appended(jb0))

\* delete_selected_cost_code(): the cost code, its quotes and the schedules
\* of its code are removed (lines 1000-1006)
cost_code_removed(jb0, cc_id) ==
    (CHOOSE it \in {
        [jb EXCEPT
            !["cost_codes"] = SelectSeq(@, LAMBDA c : Get(c, "id", 0) # cc_id),
            !["quotes"] = Del(@, {code}),
            !["frame_schedules"] =
                Del(@, {k \in DOMAIN @ : parse_frame_spec_id(k)[1] = code})]
      : jb \in {jb0},
        code \in {CodeOf(jb0["cost_codes"][find_cc_by_id(jb0, cc_id)])}} : TRUE)

\* delete_selected_cost_code() of the selected cost code, the question answered yes
cost_code_deleted(jb0, cc_id) ==
    Call("cost_codes_changed", cost_code_removed(jb0, cc_id))

\* the places <<spec id, index>> of the sections of a job
Places(jb) ==
    UNION {{<<k, i>> : i \in 1..Len(jb["frame_schedules"][k].v)} :
             k \in DOMAIN jb["frame_schedules"]}

\* the ids of the sections of a job
SectionIdsOf(jb) == {jb["frame_schedules"][p[1]].v[p[2]].v["id"] : p \in Places(jb)}

\* the place of the section of id sid
PlaceOf(jb, sid) ==
    CHOOSE p \in Places(jb) : jb["frame_schedules"][p[1]].v[p[2]].v["id"] = sid

\* the section dict of id sid
SectionOf(jb, sid) ==
    (CHOOSE it \in {jb["frame_schedules"][p[1]].v[p[2]].v : p \in {PlaceOf(jb, sid)}} : TRUE)

\* the job with the section dict of id sid replaced by s
WithSection(jb0, sid, s) ==
    (CHOOSE it \in {
        Put(jb, "frame_schedules",
            Put(jb["frame_schedules"], p[1],
                PyList([jb["frame_schedules"][p[1]].v EXCEPT ![p[2]] = PyDict(s)])))
      : jb \in {jb0}, p \in {PlaceOf(jb0, sid)}} : TRUE)

\* a mistaken _enforce_blank_row, which leaves the rows as they are
rows_left_as_edited(rows0) == rows0

\* _enforce_blank_row(): one blank row follows the populated rows
enforce_blank_row(rows0) ==
    (CHOOSE it \in {
        IF Len(rows) <= target
        THEN rows \o [i \in 1..(target - Len(rows)) |-> PyDict(default_schedule_row)]
        ELSE SubSeq(rows, 1,
                    SetMax({target} \cup {i \in 1..Len(rows) : qty_populated(rows[i].v)}))
      : rows \in {rows0},
        target \in {SetMax({1, Cardinality({i \in 1..Len(rows0) :
                                              qty_populated(rows0[i].v)}) + 1})}} : TRUE)

\* update_materials_only() over the subtotals the section shows: the sealants
\* factor is filled and the total of the material costs is stored
update_materials_only(section0) ==
    (CHOOSE it \in {
        [section EXCEPT
            !["materials"] = PyList(mats),
            !["install_material_total"] =
                Call("MaterialTotal", <<section["rows"].v, mats>>)]
      : section \in {section0},
        mats \in {SealedMaterials(section0["materials"].v)}} : TRUE)

\* on_any_change() of the section of id sid
on_any_change(jb0, sid) ==
    (CHOOSE it \in {
        Call("compute_frame_schedule_rollups",
             WithSection(jb, sid, Call("recompute_section_totals", SectionOf(jb, sid))))
      : jb \in {jb0}} : TRUE)

CalcFields == {"sqft", "perim", "caulk_lf", "head_sill"}

\* lines 2119-2137 of _on_edit: the row takes the texts of its entries, of which
\* the entry of key holds text; caulk_passes is set to 3 in a row that holds
\* other data; the row is recalculated
row_edited(row0, key, text) ==
    (CHOOSE it \in {
        Call("calc_schedule_row",
            IF /\ key # "caulk_passes"
               /\ \E k \in DOMAIN row \ (CalcFields \cup {"caulk_passes"}) : row[k] # <<>>
               /\ row["caulk_passes"] = <<>>
            THEN Put(row, "caulk_passes", <<"3">>) ELSE row)
      : row \in {[k \in DOMAIN row0 |->
                    IF k = key THEN strip(text)
                    ELSE IF k \in CalcFields THEN row0[k] ELSE strip(row0[k])]}} : TRUE)

\* _on_edit(row_idx, key) of the section of id sid, the entry holding text
on_edit(jb0, sid, row_idx, key, text) ==
    (CHOOSE it \in {
        on_any_change(
            WithSection(jb0, sid,
                update_materials_only(
                    Put(section, "rows",
                        PyList(IF key = "qty" THEN enforce_blank_row(rows) ELSE rows)))),
            sid)
      : section \in {SectionOf(jb0, sid)},
        rows \in {[SectionOf(jb0, sid)["rows"].v EXCEPT ![row_idx] =
                      PyDict(row_edited(@.v, key, text))]}} : TRUE)

\* _delete_row(row_idx) of the section of id sid, the question answered yes
delete_row(jb0, sid, row_idx) ==
    (CHOOSE it \in {
        on_any_change(
            WithSection(jb0, sid,
                update_materials_only(
                    Put(section, "rows",
                        PyList(enforce_blank_row(
                            IF rows = <<>> THEN <<PyDict(default_schedule_row)>>
                            ELSE rows))))),
            sid)
      : section \in {SectionOf(jb0, sid)},
        rows \in {Removed(SectionOf(jb0, sid)["rows"].v, row_idx)}} : TRUE)

\* _material_manual_qty_edit, _material_factor_edit and _material_rate_edit of
\* the i-th material of the section of id sid, the entry holding text
material_edited(jb0, sid, i, field, text) ==
    (CHOOSE it \in {
        on_any_change(
            WithSection(jb0, sid,
                update_materials_only(
                    Put(section, "materials",
                        PyList([section["materials"].v EXCEPT ![i] =
                                   Put(@, field, strip(text))])))),
            sid)
      : section \in {SectionOf(jb0, sid)}} : TRUE)

\* the most free-form rows the materials of a section take
MaxFreeMaterials == 2

\* "free_" followed by a part of a uuid: the key of the n-th free-form row
FreeKeys == [n \in 1..(MaxFreeMaterials + 1) |-> "free_" \o ToString(n)]

\* the free-form rows among the materials of a section
FreeCount(section) ==
    Cardinality({i \in DOMAIN section["materials"].v :
                   Get(section["materials"].v[i], "key", "") \in Range(FreeKeys)})

\* the row _add_freeform_material_row appends, n standing for the uuid
FreeMaterial(n) ==
    [key |-> FreeKeys[n], label |-> <<>>, basis |-> "manual", factor |-> <<>>,
     rate |-> <<>>, qty |-> <<>>, unit |-> <<>>]

\* _add_freeform_material_row() of the section of id sid
freeform_material_added(jb0, sid) ==
    (CHOOSE it \in {
        on_any_change(
            WithSection(jb0, sid,
                update_materials_only(
                    Put(section, "materials",
                        PyList(Append(section["materials"].v,
                                      FreeMaterial(FreeCount(section) + 1)))))),
            sid)
      : section \in {SectionOf(jb0, sid)}} : TRUE)

\* whether delete_material_row removes a material: only a free-form row
IsFreeMaterial(m) == Get(m, "key", "") \in Range(FreeKeys)

\* delete_material_row(index) of the section of id sid, the question answered yes
material_deleted(jb0, sid, index) ==
    (CHOOSE it \in {
        IF ~IsFreeMaterial(section["materials"].v[index]) THEN jb0
        ELSE on_any_change(
                WithSection(jb0, sid,
                    update_materials_only(
                        Put(section, "materials",
                            PyList(Removed(section["materials"].v, index))))),
                sid)
      : section \in {SectionOf(jb0, sid)}} : TRUE)

\* the section a new section UI shows: _render_rows_initial_fixed lets one blank
\* row follow the populated rows
section_shown(section0) ==
    (CHOOSE it \in {
        Put(section, "rows", PyList(enforce_blank_row(section["rows"].v)))
      : section \in {section0}} : TRUE)

\* fs_add_schedule_section() with the spec id selected
section_added(jb0, spec_id) ==
    (CHOOSE it \in {
        Call("compute_frame_schedule_rollups",
            Put(jb, "frame_schedules",
                Put(jb["frame_schedules"], spec_id,
                    PyList(Append(Get(jb["frame_schedules"], spec_id, PyList(<<>>)).v,
                                  PyDict(section_shown(section)))))))
      : jb \in {jb0},
        section \in {Call("recompute_section_totals",
                           default_schedule_section(spec_id, FreshId(jb0)))}} : TRUE)

\* delete_section(spec_id, section_id), and the rollups _update_group_title computes
delete_section(jb0, spec_id, section_id) ==
    (CHOOSE it \in {
        Call("reconcile_all",
             Put(jb, "frame_schedules",
                 Put(jb["frame_schedules"], spec_id,
                     PyList(SelectSeq(jb["frame_schedules"][spec_id].v,
                                      LAMBDA s : Get(s.v, "id", 0) # section_id)))))
      : jb \in {jb0}} : TRUE)

\* the quote a new quote row shows: ensure_quote_defaults, then create_quote_row
quote_row_created(q0) ==
    (CHOOSE it \in {
        recalc(q, money_fmt(q["price"]), pct_fmt(q["surcharge"]))
      : q \in {ensure_quote_defaults(q0)}} : TRUE)

\* the job with the quotes of (code, variant) replaced
WithQuotes(jb0, code, variant, quotes_list) ==
    (CHOOSE it \in {
        Put(jb, "quotes",
            Put(jb["quotes"], code, PyDict(Put(jb["quotes"][code].v, variant, quotes_list))))
      : jb \in {jb0}} : TRUE)

\* add_quote(code, variant) while the block of the spec is shown
add_quote(jb0, code, variant) ==
    (CHOOSE it \in {
        WithQuotes(jb, code, variant,
                   Append(QuotesOf(jb, code, variant), quote_row_created(EmptyQuote)))
      : jb \in {jb0}} : TRUE)

\* a mistaken delete_quote that leaves the bucket empty after its last quote
delete_quote_leaving_empty(jb0, code, variant, idx) ==
    WithQuotes(jb0, code, variant, Removed(QuotesOf(jb0, code, variant), idx))

\* delete_quote(code, variant, idx) while the block of the spec is shown; idx
\* counts from 1
delete_quote(jb0, code, variant, idx) ==
    (CHOOSE it \in {
        WithQuotes(jb0, code, variant,
                   IF rest = <<>> THEN <<quote_row_created(EmptyQuote)>> ELSE rest)
      : rest \in {Removed(QuotesOf(jb0, code, variant), idx)}} : TRUE)

\* a mistaken apply_snapshot that brings back the snapshot without its quotes
undone_without_quotes(snap) == Put(snap, "quotes", <<>>)

\* apply_snapshot(snap) and the refreshes of undo()
undone(snap) ==
    (CHOOSE it \in {
        Call("reconcile_all", Call("refresh_quotes_ui",
            Put(jb, "cost_codes", SortedByCode(jb["cost_codes"]))))
      : jb \in {Call("ensure_job_defaults", snap)}} : TRUE)

\* the passes of save_only() and the total it stores
saved(jb0) ==
    (CHOOSE it \in {
        Put(r.job, "bid_sheet_total", r.total)
      : r \in {BidSheetTotalAfter(jb0, 2)}} : TRUE)

\* the job file raw opened in a window: load_job, then the tabs are shown
opened(raw) ==
    Call("reconcile_all", Call("refresh_quotes_ui", Call("ensure_job_defaults", raw)))

\* a handler of a section UI.  While the UI holds the dicts of the job the
\* handler f changes the job; after an undo it holds the dicts of the job that
\* was replaced, and of the job x[1] only the rollups are computed again
section_ui_handled(live, f, x) ==
    Call(IF live THEN f ELSE "compute_frame_schedule_rollups", IF live THEN x ELSE x[1])

Call(f, x) ==
    CASE f = "calc_schedule_row" -> calc_schedule_row(x)
      [] f = "MaterialTotal" -> MaterialTotal(x[1], x[2])
      [] f = "recompute_section_totals" -> recompute_section_totals(x)
      [] f = "compute_frame_schedule_rollups" -> compute_frame_schedule_rollups(x)
      [] f = "normalize_frame_schedules" -> normalize_frame_schedules(x)
      [] f = "ensure_job_defaults" -> ensure_job_defaults(x)
      [] f = "Normalized" -> Normalized(x)
      [] f = "refresh_quotes_ui" -> refresh_quotes_ui(x)
      [] f = "reconcile_all" -> reconcile_all(x)
      [] f = "cost_codes_changed" -> cost_codes_changed(x)
      [] f = "cost_codes_changed_on" -> cost_codes_changed_on(x[1], x[2], x[3])
      [] f = "on_edit" -> on_edit(x[1], x[2], x[3], x[4], x[5])
      [] f = "delete_row" -> delete_row(x[1], x[2], x[3])
      [] f = "material_edited" -> material_edited(x[1], x[2], x[3], x[4], x[5])
      [] f = "freeform_material_added" -> freeform_material_added(x[1], x[2])
      [] f = "material_deleted" -> material_deleted(x[1], x[2], x[3])
      [] f = "section_added" -> section_added(x[1], x[2])
      [] f = "undone" -> undone(x)
      [] f = "opened" -> opened(x)

\* the most edits the user makes, and the most snapshots the undo stack keeps
\* (the window keeps 50)
MaxEdits == 2
MaxUndo == 1

Code_08_71_00 == <<"0", "8", " ", "7", "1", " ", "0", "0">>
T_2_00 == <<"2", ".", "0", "0">>

\* the job files opened: two cost codes, of which one has an alternate, with
\* quotes and sections under each; and one cost code whose code holds "||"
EditJobs ==
    { [id |-> 9, job_name |-> <<"J">>,
       cost_codes |-> <<CostCode(1, Code_08_11_00, <<1>>), CostCode(2, Code_08_41_13, <<>>)>>,
       quotes |-> (Code_08_11_00 :> PyDict(BASE :> <<Quote(100, 100)>>
                                            @@ ALT1 :> <<Quote(250, 250)>>)
                   @@ Code_08_41_13 :> PyDict(BASE :> <<Quote(70, 70)>>)),
       frame_schedules |->
          (frame_spec_id(Code_08_11_00, BASE) :>
              PyList(<<PyDict([default_schedule_section(frame_spec_id(Code_08_11_00, BASE), 3)
                               EXCEPT !.rows = PyList(<<PyDict(Row(<<"2">>, T_36, T_48))>>),
                                      !.materials = PyList(<<default_materials[1]>>)])>>)
           @@ frame_spec_id(Code_08_11_00, ALT1) :>
              PyList(<<PyDict([default_schedule_section(frame_spec_id(Code_08_11_00, ALT1), 4)
                               EXCEPT !.materials = PyList(<<TieBack(T_10)>>)])>>)
           @@ frame_spec_id(Code_08_41_13, BASE) :>
              PyList(<<PyDict([default_schedule_section(frame_spec_id(Code_08_41_13, BASE), 5)
                               EXCEPT !.materials = PyList(<<TieBack(T_20)>>)])>>))],
      [id |-> 9, job_name |-> <<"J">>,
       cost_codes |-> <<CostCode(1, CodeWithBars, <<>>)>>,
       quotes |-> (CodeWithBars :> PyDict(BASE :> <<Quote(100, 100)>>)),
       frame_schedules |->
          (frame_spec_id(CodeWithBars, BASE) :>
              PyList(<<PyDict([default_schedule_section(frame_spec_id(CodeWithBars, BASE), 3)
                               EXCEPT !.materials = PyList(<<TieBack(T_10)>>)])>>))] }

\* what the user types
CodeTexts == {Code_08_41_13, Code_08_71_00}
AltsTexts == {<<>>, <<"2", ",", " ", "1">>}
RowEdits == {[key |-> "qty", text |-> <<"3">>], [key |-> "qty", text |-> <<>>]}
MaterialEdits == {[field |-> "rate", text |-> T_2_00]}

\* the limit of the undo stack
UNDO_LIMIT == 50

\* a mistaken push_undo that never drops a snapshot
push_undo_unbounded(stack0, snap, limit) == Append(stack0, snap)

\* push_undo() under a limit: the snapshot joins the stack, which drops its
\* oldest beyond the limit
push_undo_at(stack0, snap, limit) ==
    (CHOOSE it \in {
        IF Len(stack) > limit THEN Tail(stack) ELSE stack
      : stack \in {Append(stack0, snap)}} : TRUE)

\* push_undo() in the windows whose snapshots are whole job records, where
\* MaxUndo stands for the limit
push_undo(stack0, snap) == push_undo_at(stack0, snap, MaxUndo)

\* the job as reconcile_all() and add_section_ui leave it: a section that had no
\* section UI is shown in a new one
sections_shown(jb0, section_ui) ==
    (CHOOSE it \in {
        Put(jb0, "frame_schedules",
            [k \in DOMAIN fs |->
                PyList([i \in 1..Len(fs[k].v) |->
                          IF fs[k].v[i].v["id"] \in DOMAIN section_ui THEN fs[k].v[i]
                          ELSE PyDict(section_shown(fs[k].v[i].v))])])
      : fs \in {jb0["frame_schedules"]}} : TRUE)

\* the section UIs reconcile_all() leaves: one for every section of the job,
\* with the spec id it was created under; parted tells that the job was
\* replaced by a snapshot, so that the UIs kept hold sections of the old job
section_uis(jb, section_ui, parted) ==
    [sid \in SectionIdsOf(jb) |->
        IF sid \in DOMAIN section_ui
        THEN [section_ui[sid] EXCEPT !.live = @ /\ ~parted]
        ELSE [spec_id |-> PlaceOf(jb, sid)[1], live |-> TRUE, marked |-> FALSE]]

InitEdit ==
    /\ \E raw \in EditJobs :
          job = sections_shown(Call("opened", raw), <<>>)
    /\ ui = [edits |-> 0, undo_stack |-> <<>>,
             section_ui |-> section_uis(job, <<>>, FALSE)]
    /\ probe = [op |-> "open"]
    /\ result = 0
    /\ pc = "opened"

\* the window after a handler that left the job jb; pushed tells whether the
\* handler called push_undo() first
Edited(jb0, pushed) ==
    /\ \E jb \in {jb0} :
          /\ job' = sections_shown(jb, ui.section_ui)
          /\ ui' = [ui EXCEPT
                      !.edits = @ + 1,
                      !.undo_stack = IF pushed THEN push_undo(@, job) ELSE @,
                      !.section_ui = section_uis(jb, @, FALSE)]
    /\ pc' = "edited"
    /\ UNCHANGED result

CostCodeIds == {job["cost_codes"][i]["id"] : i \in DOMAIN job["cost_codes"]}

AddCostCode ==
    /\ ui.edits < MaxEdits
    /\ Edited(cost_code_added(job), TRUE)
    /\ probe' = [op |-> "add_cost_code"]

\* begin_inline_edit of the code of a cost code, and its commit()
CommitCode(cc_id, text) ==
    /\ ui.edits < MaxEdits
    /\ Edited(code_committed(job, cc_id, text), TRUE)
    /\ probe' = [op |-> "rename", before |-> job, new_code |-> text,
                 old_code |-> job["cost_codes"][find_cc_by_id(job, cc_id)]["code"]]

\* begin_inline_edit of the alternates of a cost code, and its commit()
CommitAlts(cc_id, text) ==
    /\ ui.edits < MaxEdits
    /\ Edited(alts_committed(job, cc_id, text), TRUE)
    /\ probe' = [op |-> "alts"]

DeleteCostCode(cc_id) ==
    /\ ui.edits < MaxEdits
    /\ Edited(cost_code_deleted(job, cc_id), TRUE)
    /\ probe' = [op |-> "delete_cost_code"]

AddSection(spec_id) ==
    /\ ui.edits < MaxEdits
    /\ Edited(Call("section_added", <<job, spec_id>>), TRUE)
    /\ probe' = [op |-> "add_section"]

\* _remove_schedule of a section UI, the question answered yes: delete_section
\* with the spec id the UI was created under, which raises KeyError when the
\* frame schedules hold no such key
DeleteSection(sid) ==
    /\ ui.edits < MaxEdits
    /\ Edited(IF ui.section_ui[sid].spec_id \in DOMAIN job["frame_schedules"]
              THEN delete_section(job, ui.section_ui[sid].spec_id, sid)
              ELSE job, TRUE)
    /\ probe' = [op |-> "delete_section"]

\* a row entry of a section UI takes the focus, a key is released in it and it
\* loses the focus: _mark_undo_once, _on_edit, _commit_row_from_widgets.  The
\* UI of a section of a job that undo replaced edits the section it holds, and
\* on_any_change recomputes the rollups of the job
EditRow(sid, row_idx, e) ==
    /\ ui.edits < MaxEdits
    /\ row_idx <= Len(SectionOf(job, sid)["rows"].v)
    /\ job' = section_ui_handled(ui.section_ui[sid].live, "on_edit",
                                  <<job, sid, row_idx, e.key, e.text>>)
    /\ ui' = [ui EXCEPT
                !.edits = @ + 1,
                !.undo_stack = IF ui.section_ui[sid].marked THEN @ ELSE push_undo(@, job),
                !.section_ui[sid].marked = FALSE]
    /\ probe' = [op |-> "edit_row"]
    /\ pc' = "edited"
    /\ UNCHANGED result

\* the delete button of a row of a section UI
DeleteRow(sid, row_idx) ==
    /\ ui.edits < MaxEdits
    /\ row_idx <= Len(SectionOf(job, sid)["rows"].v)
    /\ job' = section_ui_handled(ui.section_ui[sid].live, "delete_row",
                                  <<job, sid, row_idx>>)
    /\ ui' = [ui EXCEPT !.edits = @ + 1, !.undo_stack = push_undo(@, job)]
    /\ probe' = [op |-> "delete_row"]
    /\ pc' = "edited"
    /\ UNCHANGED result

\* a material entry of a section UI takes the focus and a key is released in it
EditMaterial(sid, i, e) ==
    /\ ui.edits < MaxEdits
    /\ i <= Len(SectionOf(job, sid)["materials"].v)
    /\ job' = section_ui_handled(ui.section_ui[sid].live, "material_edited",
                                  <<job, sid, i, e.field, e.text>>)
    /\ ui' = [ui EXCEPT
                !.edits = @ + 1,
                !.undo_stack = IF ui.section_ui[sid].marked THEN @ ELSE push_undo(@, job),
                !.section_ui[sid].marked = TRUE]
    /\ probe' = [op |-> "edit_material"]
    /\ pc' = "edited"
    /\ UNCHANGED result

AddMaterial(sid) ==
    /\ ui.edits < MaxEdits
    /\ FreeCount(SectionOf(job, sid)) < MaxFreeMaterials
    /\ job' = section_ui_handled(ui.section_ui[sid].live, "freeform_material_added",
                                  <<job, sid>>)
    /\ ui' = [ui EXCEPT !.edits = @ + 1, !.undo_stack = push_undo(@, job)]
    /\ probe' = [op |-> "add_material"]
    /\ pc' = "edited"
    /\ UNCHANGED result

\* the delete button of a material row, which is enabled for a free-form row
DeleteMaterial(sid, index) ==
    /\ ui.edits < MaxEdits
    /\ index <= Len(SectionOf(job, sid)["materials"].v)
    /\ IsFreeMaterial(SectionOf(job, sid)["materials"].v[index])
    /\ job' = section_ui_handled(ui.section_ui[sid].live, "material_deleted",
                                  <<job, sid, index>>)
    /\ ui' = [ui EXCEPT !.edits = @ + 1, !.undo_stack = push_undo(@, job)]
    /\ probe' = [op |-> "delete_material"]
    /\ pc' = "edited"
    /\ UNCHANGED result

\* the (code, variant) buckets the quotes tab shows
QuoteBuckets ==
    UNION {{<<code, v>> : v \in DOMAIN job["quotes"][code].v} : code \in DOMAIN job["quotes"]}

AddQuote(code, variant) ==
    /\ ui.edits < MaxEdits
    /\ Edited(add_quote(job, code, variant), TRUE)
    /\ probe' = [op |-> "add_quote"]

DeleteQuote(code, variant, idx) ==
    /\ ui.edits < MaxEdits
    /\ idx <= Len(QuotesOf(job, code, variant))
    /\ Edited(delete_quote(job, code, variant, idx), TRUE)
    /\ probe' = [op |-> "delete_quote", code |-> code, variant |-> variant,
                 left |-> Len(QuotesOf(job, code, variant)) - 1]

\* undo(): nothing on an empty stack; else the last snapshot replaces the job
Undo ==
    /\ IF ui.undo_stack = <<>>
       THEN UNCHANGED <<job, ui>>
       ELSE \E jb \in {Call("undone", ui.undo_stack[Len(ui.undo_stack)])} :
               /\ job' = sections_shown(jb, ui.section_ui)
               /\ ui' = [ui EXCEPT
                           !.undo_stack = SubSeq(@, 1, Len(@) - 1),
                           !.section_ui = section_uis(jb, @, TRUE)]
    /\ probe' = [op |-> "undo", stack |-> ui.undo_stack, before |-> job]
    /\ pc' = "edited"
    /\ UNCHANGED result

\* save_only()
Save ==
    /\ ui.edits < MaxEdits
    /\ Edited(saved(job), FALSE)
    /\ probe' = [op |-> "save"]

\* the cost codes tab and the quotes tab of the window
NextEdit ==
    \/ AddCostCode
    \/ \E cc_id \in CostCodeIds, text \in CodeTexts : CommitCode(cc_id, text)
    \/ \E cc_id \in CostCodeIds, text \in AltsTexts : CommitAlts(cc_id, text)
    \/ \E cc_id \in CostCodeIds : DeleteCostCode(cc_id)
    \/ \E b \in QuoteBuckets : AddQuote(b[1], b[2])
    \/ \E b \in QuoteBuckets : DeleteQuote(b[1], b[2], 1)
    \/ Undo
    \/ Save

\* the frame schedule tab of the window
NextSections ==
    \/ \E spec_id \in build_valid_frame_spec_ids(job) : AddSection(spec_id)
    \/ \E sid \in DOMAIN ui.section_ui : DeleteSection(sid)
    \/ \E sid \in DOMAIN ui.section_ui, e \in RowEdits : EditRow(sid, 1, e)
    \/ \E sid \in DOMAIN ui.section_ui : DeleteRow(sid, 1)
    \/ \E sid \in DOMAIN ui.section_ui, e \in MaterialEdits : EditMaterial(sid, 1, e)
    \/ \E sid \in DOMAIN ui.section_ui : AddMaterial(sid)
    \/ \E sid \in DOMAIN ui.section_ui :
          DeleteMaterial(sid, Len(SectionOf(job, sid)["materials"].v))
    \/ Undo

SpecEdit == InitEdit /\ [][NextEdit]_vars

SpecSections == InitEdit /\ [][NextSections]_vars

-----------------------------------------------------------------------------
(* Section totals and rollups after the handlers of the frame schedule tab  *)

\* the sum of the material costs of a section over its rows as they are now,
\* recalculated
RecomputedTotal(section) ==
    MaterialTotal(CalcRows(ListOr(section, "rows")),
                  SealedMaterials(ListOr(section, "materials")))

StoredTotals(sections) ==
    SumSeq([i \in 1..Len(sections) |-> sections[i].v["install_material_total"]])

-----------------------------------------------------------------------------
(* The rename of a cost code *)

\* the sections of two lists are the same but for the spec id they are filed under
SameSections(a, b) ==
    /\ Len(a) = Len(b)
    /\ \A i \in 1..Len(a) : Del(a[i].v, {"spec_id"}) = Del(b[i].v, {"spec_id"})

\* the variants of the cost codes of a job whose code is code
VariantsOfCode(jb, code) ==
    UNION {Range(variants_for_cc(Get(jb["cost_codes"][i], "alts", <<>>))) :
             i \in {n \in DOMAIN jb["cost_codes"] : CodeOf(jb["cost_codes"][n]) = code}}

\* the code of a cost code has just been changed from a code to another code
Renamed ==
    /\ pc = "edited"
    /\ probe.op = "rename"
    /\ strip(probe.old_code) # <<>>
    /\ strip(probe.new_code) # <<>>
    /\ strip(probe.new_code) # strip(probe.old_code)

\* C15: renaming a cost code from A to a code B that no other cost code uses,
\* followed by normalization, moves every quote list under A (each variant) to
\* the same variant under B and every frame-schedule section under A||variant
\* to B||variant, with the same quotes and sections in the same order, and
\* nothing is left under A.
C15_RenameToUnusedCodeMovesAll ==
    (Renamed /\ strip(probe.new_code) \notin CodesPresent(probe.before)) =>
        LET A == strip(probe.old_code)
            B == strip(probe.new_code)
            before == probe.before
        IN  /\ \A v \in DOMAIN before["quotes"][A].v :
                  QuotesOf(job, B, v) = before["quotes"][A].v[v]
            /\ \A v \in VariantsOfCode(before, A) :
                  frame_spec_id(A, v) \in DOMAIN before["frame_schedules"] =>
                      /\ frame_spec_id(B, v) \in DOMAIN job["frame_schedules"]
                      /\ SameSections(job["frame_schedules"][frame_spec_id(B, v)].v,
                                      before["frame_schedules"][frame_spec_id(A, v)].v)
            /\ A \notin DOMAIN job["quotes"]
            /\ \A v \in VariantsOfCode(before, A) :
                  frame_spec_id(A, v) \notin DOMAIN job["frame_schedules"]

\* the sections filed under a spec id of a job, but for the spec id they hold
SectionsUnder(jb, spec_id) ==
    IF spec_id \in DOMAIN jb["frame_schedules"]
    THEN {Del(jb["frame_schedules"][spec_id].v[i].v, {"spec_id"}) :
             i \in DOMAIN jb["frame_schedules"][spec_id].v}
    ELSE {}

\* C16: renaming a cost code from A to B when B already has quote or schedule
\* data merges rather than overwrites: for every variant, the quotes under B
\* afterwards include both the quotes that were under B and the quotes that
\* were under A for that variant, and the sections under B||variant include
\* the sections of both; no quote or section of either is dropped.
C16_RenameToUsedCodeMerges ==
    (Renamed /\ strip(probe.new_code) \in CodesPresent(probe.before)) =>
        LET A == strip(probe.old_code)
            B == strip(probe.new_code)
            before == probe.before
        IN  \A v \in VariantsOfCode(before, A) \cup VariantsOfCode(before, B) :
                /\ Range(QuotesOf(before, A, v)) \cup Range(QuotesOf(before, B, v))
                      \subseteq Range(QuotesOf(job, B, v))
                /\ SectionsUnder(before, frame_spec_id(A, v))
                      \cup SectionsUnder(before, frame_spec_id(B, v))
                      \subseteq SectionsUnder(job, frame_spec_id(B, v))

-----------------------------------------------------------------------------
(* The quote buckets *)

\* a quote that holds no vendor, no price, no cost and no notes
IsBlankQuote(q) ==
    /\ Get(q, "vendor", <<>>) = <<>>
    /\ Get(q, "price", 0) = 0
    /\ Get(q, "cost", 0) = 0
    /\ Get(q, "notes", <<>>) = <<>>

-----------------------------------------------------------------------------
(* The keys of the frame schedules *)

\* C18: after every normalization pass, every spec id in the frame-schedules
\* map maps to a list with at least one section; no valid spec id is left with
\* an empty section list.
C18_EverySpecHasASection ==
    /\ build_valid_frame_spec_ids(job) \subseteq DOMAIN job["frame_schedules"]
    /\ \A spec_id \in DOMAIN job["frame_schedules"] :
          Len(job["frame_schedules"][spec_id].v) >= 1

\* the text t begins with the text p
HasPrefix(t, p) == Len(t) >= Len(p) /\ SubSeq(t, 1, Len(p)) = p

\* C19: after every normalization pass and after every cost-code add, rename,
\* delete or alternates change, every key of the frame-schedules map is a valid
\* spec id (code||variant of a current cost code with non-blank code and a
\* variant of its alternates): sections of a removed code or removed alternate
\* are gone and none remains under an old code after a rename.
C19_ScheduleKeysAreValid ==
    /\ DOMAIN job["frame_schedules"] \subseteq SpecIdsOfCostCodes
    /\ (Renamed /\ strip(probe.old_code) \notin CodesPresent(job)) =>
          \A k \in DOMAIN job["frame_schedules"] :
              ~HasPrefix(k, frame_spec_id(strip(probe.old_code), <<>>))

\* the alternate of the first cost code has been removed, and the section
\* that was under its ALT1 is gone with the key
C19_AlternateRemoved ==
    /\ pc = "edited"
    /\ probe.op = "alts"
    /\ ui.edits = 1
    /\ frame_spec_id(Code_08_11_00, BASE) \in DOMAIN job["frame_schedules"]
    /\ frame_spec_id(Code_08_11_00, ALT1) \notin DOMAIN job["frame_schedules"]
    /\ 4 \notin SectionIdsOf(job)

-----------------------------------------------------------------------------
(* The alternates of a job file *)

\* the alternates a job file may hold for a cost code: up to MaxAlts numbers,
\* in any order, repeated or not, of which 0 and 26 are out of range
MaxAlts == 3
RawAltNumbers == {0, 1, 2, 26}
RawAlts == UNION {[1..n -> RawAltNumbers] : n \in 0..MaxAlts}

InitAlts ==
    /\ \E alts \in RawAlts :
          job = [id |-> MaxRawId, job_name |-> <<"J">>,
                 cost_codes |-> <<CostCode(1, Code_08_11_00, alts)>>]
    /\ probe = job
    /\ result = 0
    /\ pc = "loaded"
    /\ ui = NoUI

SpecAlts == InitAlts /\ [][NextNorm]_vars

\* C20: after every normalization pass, for every cost code of any job record
\* (including one loaded from disk with unsorted, duplicated or out-of-range
\* alternates), the alternates are unique integers in [1,25] in ascending
\* order, so that variants_for returns BASE followed by ALTn in ascending
\* numeric order of n with no repeats.
C20_AlternatesUniqueSortedInRange ==
    pc \in {"normalized", "renormalized"} =>
        \A i \in DOMAIN job["cost_codes"] :
            LET alts == job["cost_codes"][i]["alts"]
                variants == variants_for_cc(alts)
            IN  /\ \A k \in DOMAIN alts : alts[k] \in 1..25
                /\ \A k, l \in DOMAIN alts : k < l => alts[k] < alts[l]
                /\ variants[1] = BASE
                /\ \A k, l \in 2..Len(variants) : k # l => variants[k] # variants[l]

-----------------------------------------------------------------------------
(* The text of the alternates *)

\* the texts typed into the alternates column: every text of up to
\* MaxAltsText of the characters below, and the text 3,3,26,1,x,2
MaxAltsText == 4
AltsChars == {"1", "2", "3", "6", ",", " ", "x", SuperscriptTwo}
AltsExample == <<"3", ",", "3", ",", "2", "6", ",", "1", ",", "x", ",", "2">>
AltsInputs == UNION {[1..n -> AltsChars] : n \in 0..MaxAltsText} \cup {AltsExample}

InitParseAlts ==
    /\ probe \in AltsInputs
    /\ result = 0
    /\ pc = "typed"
    /\ job = NoJob
    /\ ui = NoUI

ApplyParseAlts ==
    /\ pc = "typed"
    /\ result' = IF parse_alts_raises(probe)
                 THEN [raised |-> TRUE, alts |-> <<>>]
                 ELSE [raised |-> FALSE, alts |-> parse_alts(probe)]
    /\ pc' = "parsed"
    /\ UNCHANGED <<job, ui, probe>>

NextParseAlts == ApplyParseAlts

SpecParseAlts == InitParseAlts /\ [][NextParseAlts]_vars

\* the characters a..b of a text are one of its comma-separated tokens
IsToken(text, a, b) ==
    /\ a <= b
    /\ a = 1 \/ text[a - 1] = ","
    /\ b = Len(text) \/ text[b + 1] = ","
    /\ \A i \in a..b : text[i] # ","

\* the integers from 1 to 25 that appear as tokens of a text, in decimal digits
ListedAlternates(text) ==
    {n \in 1..25 :
        \E a, b \in 1..Len(text) :
            /\ IsToken(text, a, b)
            /\ AllDigits(strip(SubSeq(text, a, b)))
            /\ DigitsToNat(strip(SubSeq(text, a, b))) = n}

\* C21: for every comma-separated input text, parse_alts returns the ascending
\* list of the distinct integers n with 1 <= n <= 25 that appear as tokens;
\* duplicate, out-of-range and non-numeric tokens are dropped ("3,3,26,1,x,2"
\* gives [1,2,3]).
C21_ParseAltsListsTheAlternates ==
    pc = "parsed" =>
        /\ ~result.raised
        /\ Range(result.alts) = ListedAlternates(probe)
        /\ \A k, l \in DOMAIN result.alts : k < l => result.alts[k] < result.alts[l]

-----------------------------------------------------------------------------
(* Spec ids *)

\* the codes a cost code may store: the texts of up to MaxCodeText of the
\* characters below that strip() leaves whole and that are not blank; and the
\* spec ids parsed, any text of these characters
MaxCodeText == 4
CodeChars == {"A", "|", " "}
SpecIdTexts == UNION {[1..n -> CodeChars] : n \in 0..MaxCodeText}
StoredCodes == {t \in SpecIdTexts : t # <<>> /\ strip(t) = t}
Variants == {BASE, ALT1, ALT2}

InitSpecId ==
    /\ \/ probe \in [op : {"round_trip"}, code : StoredCodes, variant : Variants]
       \/ probe \in [op : {"parse"}, spec_id : SpecIdTexts]
    /\ result = 0
    /\ pc = "given"
    /\ job = NoJob
    /\ ui = NoUI

\* parse_frame_spec_id of the spec id that frame_spec_id builds
RoundTrip ==
    /\ pc = "given"
    /\ probe.op = "round_trip"
    /\ result' = parse_frame_spec_id(frame_spec_id(probe.code, probe.variant))
    /\ pc' = "parsed"
    /\ UNCHANGED <<job, ui, probe>>

ParseSpecId ==
    /\ pc = "given"
    /\ probe.op = "parse"
    /\ result' = parse_frame_spec_id(probe.spec_id)
    /\ pc' = "parsed"
    /\ UNCHANGED <<job, ui, probe>>

NextSpecId == RoundTrip \/ ParseSpecId

SpecSpecId == InitSpecId /\ [][NextSpecId]_vars

\* C22: for every cost-code string that can be stored as a non-blank code and
\* every variant, parse_frame_spec_id(frame_spec_id(code, variant)) returns
\* (code, variant), so that the quotes looked up for a bid-sheet entry are
\* those of its own (code, variant); a spec id with no "||" or an empty
\* variant part parses to variant BASE.
C22_SpecIdRoundTrip ==
    /\ (pc = "parsed" /\ probe.op = "round_trip") =>
          result = <<probe.code, probe.variant>>
    /\ (pc = "parsed" /\ probe.op = "parse") =>
          LET i == FindBars(probe.spec_id)
          IN  (i = 0 \/ strip(SubSeq(probe.spec_id, i + 2, Len(probe.spec_id))) = <<>>)
                  => result[2] = BASE

-----------------------------------------------------------------------------
(* The fields of a bid-sheet entry *)

\* C23: after normalization, every bid-sheet entry has the fields markup_pct,
\* markup_amt, markup_source, notes and color, and an entry created by
\* normalization for a new valid spec id has markup_pct = "", markup_amt = "",
\* markup_source = "pct", notes = "" and color = "None"; existing entries keep
\* their field values.
C23_BidSheetEntriesHaveAllFields ==
    pc = "normalized" =>
        \A spec_id \in DOMAIN job["bid_sheet"] :
            LET row == job["bid_sheet"][spec_id]
                before == Get(probe, "bid_sheet", <<>>)
            IN  /\ {"markup_pct", "markup_amt", "markup_source", "notes", "color"}
                      \subseteq DOMAIN row
                /\ spec_id \notin DOMAIN before =>
                      /\ row["markup_pct"] = <<>>
                      /\ row["markup_amt"] = <<>>
                      /\ row["markup_source"] = "pct"
                      /\ row["notes"] = <<>>
                      /\ row["color"] = "None"
                /\ spec_id \in DOMAIN before =>
                      \A f \in DOMAIN before[spec_id] : row[f] = before[spec_id][f]

-----------------------------------------------------------------------------
(* The cost-code handlers in a window whose tabs were shown or not *)

\* The window opens on its first tab; the quotes tab and the frame schedule
\* tab build their contents when they are first shown.  ui holds whether each
\* was shown, the undo stack and the section UIs of the frame schedule tab.
\* The bid sheet tab is not shown in these behaviours.
MaxCascadeEdits == 2

InitCascade ==
    /\ \E raw \in EditJobs :
          \E jb \in {Call("ensure_job_defaults", raw)} :
              job = Put(jb, "cost_codes", SortedByCode(jb["cost_codes"]))
    /\ ui = [quotes_initialized |-> FALSE, frame_initialized |-> FALSE,
             edits |-> 0, undo_stack |-> <<>>, section_ui |-> <<>>]
    /\ probe = [op |-> "open"]
    /\ result = 0
    /\ pc = "opened"

\* the quotes tab is shown for the first time: ensure_quotes_initialized
ShowQuotesTab ==
    /\ ~ui.quotes_initialized
    /\ job' = Call("refresh_quotes_ui", job)
    /\ ui' = [ui EXCEPT !.quotes_initialized = TRUE]
    /\ probe' = [op |-> "show_quotes"]
    /\ pc' = "shown"
    /\ UNCHANGED result

\* the frame schedule tab is shown for the first time: ensure_frame_initialized
ShowFrameTab ==
    /\ ~ui.frame_initialized
    /\ \E jb \in {Call("reconcile_all", job)} :
          /\ job' = sections_shown(jb, ui.section_ui)
          /\ ui' = [ui EXCEPT !.frame_initialized = TRUE,
                              !.section_ui = section_uis(jb, @, FALSE)]
    /\ probe' = [op |-> "show_frames"]
    /\ pc' = "shown"
    /\ UNCHANGED result

\* a cost-code handler: push_undo, the edit, and the end of the handler
CostCodesEdited(op, edit) ==
    /\ ui.edits < MaxCascadeEdits
    /\ \E jb \in {Call("cost_codes_changed_on",
                       <<edit, ui.quotes_initialized, ui.frame_initialized>>)} :
          /\ job' = IF ui.frame_initialized THEN sections_shown(jb, ui.section_ui) ELSE jb
          /\ ui' = [ui EXCEPT
                      !.edits = @ + 1,
                      !.undo_stack = push_undo(@, job),
                      !.section_ui = IF ui.frame_initialized
                                     THEN section_uis(jb, @, FALSE) ELSE @]
    /\ probe' = [op |-> op, before |-> job]
    /\ pc' = "edited"
    /\ UNCHANGED result

AddCostCodeOn == CostCodesEdited("add_cost_code", cost_code_appended(job))

CommitCodeOn(cc_id, text) == CostCodesEdited("rename", code_edited(job, cc_id, text))

CommitAltsOn(cc_id, text) == CostCodesEdited("alts", alts_edited(job, cc_id, text))

DeleteCostCodeOn(cc_id) == CostCodesEdited("delete_cost_code", cost_code_removed(job, cc_id))

NextCascade ==
    \/ ShowQuotesTab
    \/ ShowFrameTab
    \/ AddCostCodeOn
    \/ \E cc_id \in CostCodeIds, text \in CodeTexts : CommitCodeOn(cc_id, text)
    \/ \E cc_id \in CostCodeIds, text \in AltsTexts : CommitAltsOn(cc_id, text)
    \/ \E cc_id \in CostCodeIds : DeleteCostCodeOn(cc_id)

SpecCascade == InitCascade /\ [][NextCascade]_vars

\* the spec ids code||variant of the quote buckets of the job
QuoteSpecIds ==
    UNION {{frame_spec_id(code, v) : v \in DOMAIN job["quotes"][code].v} :
             code \in DOMAIN job["quotes"]}

\* C24: when a cost-code add, rename, delete or alternates edit returns control
\* to the caller, the whole cascade has run: the quotes map, the bid-sheet
\* map, the frame-schedules map and the rollups all match the new set of valid
\* spec ids, whether or not the Quotes or Bid Sheet tab has ever been opened.
C24_CascadeCompleteAfterCostCodeEdit ==
    (pc = "edited" /\ probe.op \in {"add_cost_code", "rename", "alts", "delete_cost_code"}) =>
        /\ QuoteSpecIds = build_valid_frame_spec_ids(job)
        /\ DOMAIN job["bid_sheet"] = build_valid_frame_spec_ids(job)
        /\ DOMAIN job["frame_schedules"] = build_valid_frame_spec_ids(job)
        /\ DOMAIN job["frame_schedule_rollups"] = build_valid_frame_spec_ids(job)

-----------------------------------------------------------------------------
(* The undo stack under its limit *)

\* Every handler that changes the job calls push_undo() first, and undo() pops.
\* Here the job record is the number of the change that made it, so that the
\* stack can fill to UNDO_LIMIT; ui counts the changes and the undos.
MaxPushes == 52
MaxUndos == 2

InitUndo ==
    /\ job = [change |-> 0]
    /\ ui = [undo_stack |-> <<>>, pushes |-> 0, undos |-> 0]
    /\ probe = [op |-> "open"]
    /\ result = 0
    /\ pc = "opened"

\* a handler that changes the job: push_undo(), then the change
PushUndo ==
    /\ ui.pushes < MaxPushes
    /\ ui' = [ui EXCEPT !.undo_stack = push_undo_at(@, job, UNDO_LIMIT),
                        !.pushes = @ + 1]
    /\ job' = [change |-> ui.pushes + 1]
    /\ probe' = [op |-> "push", before |-> ui.undo_stack, snap |-> job]
    /\ pc' = "pushed"
    /\ UNCHANGED result

\* undo(): nothing on an empty stack; else the last snapshot replaces the job
PopUndo ==
    /\ ui.undos < MaxUndos
    /\ IF ui.undo_stack = <<>>
       THEN /\ job' = job
            /\ ui' = [ui EXCEPT !.undos = @ + 1]
       ELSE /\ job' = ui.undo_stack[Len(ui.undo_stack)]
            /\ ui' = [ui EXCEPT !.undo_stack = SubSeq(@, 1, Len(@) - 1),
                                !.undos = @ + 1]
    /\ probe' = [op |-> "undo", before |-> ui.undo_stack, snap |-> job]
    /\ pc' = "undone"
    /\ UNCHANGED result

NextUndo == PushUndo \/ PopUndo

SpecUndo == InitUndo /\ [][NextUndo]_vars

\* C25: the undo stack never holds more than 50 snapshots: after any sequence
\* of push_undo and undo its length is between 0 and 50, and a push onto a
\* full stack discards the oldest snapshot and keeps the 49 most recent plus
\* the new one in order.
C25_UndoStackAtMostFifty ==
    /\ Len(ui.undo_stack) \in 0..50
    /\ (pc = "pushed" /\ Len(probe.before) = 50) =>
          ui.undo_stack = SubSeq(probe.before, 2, 50) \o <<probe.snap>>
    /\ (pc = "pushed" /\ Len(probe.before) < 50) =>
          ui.undo_stack = Append(probe.before, probe.snap)

\* a push onto the full stack: the oldest snapshot is gone and the new one is last
C25_PushedOntoFullStack ==
    /\ pc = "pushed"
    /\ Len(probe.before) = 50
    /\ Len(ui.undo_stack) = 50
    /\ ui.undo_stack[1] = probe.before[2]
    /\ ui.undo_stack[50] = probe.snap
    /\ probe.before[1] \notin Range(ui.undo_stack)

-----------------------------------------------------------------------------
(* Undo *)

-----------------------------------------------------------------------------
(* Numeric texts that float() reads as nan or as an infinity *)

T_nan == <<"n", "a", "n">>
T_inf == <<"i", "n", "f">>
T_1e999 == <<"1", "e", "9", "9", "9">>

\* the texts typed into a numeric cell
NumericTexts == {<<>>, <<"a", "b", "c">>, <<"2">>, T_nan, T_inf, T_1e999}

\* roundup(v) raises: math.ceil raises ValueError on nan, OverflowError on inf
roundup_raises(v) == v.k # "fin"

\* calc_schedule_row(row) raises, in one of its four calls of roundup
calc_schedule_row_raises(row0) ==
    (CHOOSE it \in {
        IF FLeZero(qty) THEN FALSE
        ELSE IF roundup_raises(FDiv(FMul(FMul(wid, hei), qty), 144)) THEN TRUE
        ELSE IF roundup_raises(perim) THEN TRUE
        ELSE IF FPos(cp) /\ roundup_raises(FMul(FromInt(safe_int_of_int(roundup(perim))), cp)) THEN TRUE
        ELSE roundup_raises(FDiv(FMul(qty, wid), 6))
      : qty \in {safe_float(Get(row0, "qty", <<>>))},
        wid \in {safe_float(Get(row0, "width", <<>>))},
        hei \in {safe_float(Get(row0, "height", <<>>))},
        cp \in {safe_float(Get(row0, "caulk_passes", <<>>))},
        perim \in {FMul(FMul(FromInt(2),
                             FAdd(FDiv(safe_float(Get(row0, "width", <<>>)), 12),
                                  FDiv(safe_float(Get(row0, "height", <<>>)), 12))),
                        safe_float(Get(row0, "qty", <<>>)))}} : TRUE)

\* the cost of a material line raises: roundup of a product that is not 0
MaterialCost_raises(m, subs) ==
    roundup_raises(FMul(material_qty_for_row(m, subs), safe_float(Get(m, "rate", <<>>))))

\* the subtotals of a section whose rows add up to nothing
NoSubtotals == [f \in SubtotalFields |-> 0]

InitNumericText ==
    /\ \/ \E q \in NumericTexts, w \in NumericTexts, h \in NumericTexts,
            cp \in NumericTexts :
            probe = [kind |-> "row",
                     line |-> [default_schedule_row EXCEPT
                                  !.qty = q, !.width = w, !.height = h,
                                  !.caulk_passes = cp]]
       \/ \E q \in NumericTexts, r \in NumericTexts :
            probe = [kind |-> "material",
                     line |-> [key |-> "free", basis |-> "manual", qty |-> q,
                               rate |-> r]]
    /\ result = 0
    /\ pc = "entered"
    /\ job = NoJob
    /\ ui = NoUI

\* calc_schedule_row on the row typed
CalcRowOfText ==
    /\ pc = "entered"
    /\ probe.kind = "row"
    /\ result' = IF calc_schedule_row_raises(probe.line)
                 THEN [raised |-> TRUE, row |-> probe.line, cost |-> 0]
                 ELSE [raised |-> FALSE, row |-> calc_schedule_row(probe.line),
                       cost |-> 0]
    /\ pc' = "calculated"
    /\ UNCHANGED <<job, ui, probe>>

\* the material loop of recompute_section_totals on the line typed
CostMaterialOfText ==
    /\ pc = "entered"
    /\ probe.kind = "material"
    /\ result' = IF MaterialCost_raises(probe.line, NoSubtotals)
                 THEN [raised |-> TRUE, row |-> probe.line, cost |-> 0]
                 ELSE [raised |-> FALSE, row |-> probe.line,
                       cost |-> MaterialCost(probe.line, NoSubtotals)]
    /\ pc' = "calculated"
    /\ UNCHANGED <<job, ui, probe>>

NextNumericText == CalcRowOfText \/ CostMaterialOfText

SpecNumericText == InitNumericText /\ [][NextNumericText]_vars

\* a numeric text read as the claim reads it: 0 when it is not a finite number
FiniteOrZero(t) == IF ParseFloat(t).k \in {"nan", "inf"} THEN <<"0">> ELSE t

\* a line with every numeric text read as FiniteOrZero reads it
LineOfFiniteTexts(line) ==
    [f \in DOMAIN line |->
        IF f \in {"qty", "width", "height", "caulk_passes", "factor", "rate"}
        THEN FiniteOrZero(line[f]) ELSE line[f]]

\* C27: no numeric text makes the engine raise: for every text of qty, width,
\* height, caulk_passes, material qty and rate (blank, letters, nan, inf and
\* 1e999 included) calc_schedule_row and the material loop of
\* recompute_section_totals complete, and a value that is not a finite number
\* counts as 0.
C27_NoNumericTextRaises ==
    pc = "calculated" =>
        /\ ~result.raised
        /\ probe.kind = "row" =>
              \A f \in {"sqft", "perim", "caulk_lf", "head_sill"} :
                  result.row[f] = calc_schedule_row(LineOfFiniteTexts(probe.line))[f]
        /\ probe.kind = "material" =>
              result.cost = MaterialCost(LineOfFiniteTexts(probe.line), NoSubtotals)

\* the same for the texts that float() reads as finite numbers or rejects
C27_FiniteTextsNeverRaise ==
    (pc = "calculated"
        /\ \A f \in {"qty", "width", "height", "caulk_passes", "rate"} \cap DOMAIN probe.line :
              ParseFloat(probe.line[f]).k \notin {"nan", "inf"})
        => ~result.raised
-----------------------------------------------------------------------------
(* The Add Schedule Section button of the frame schedule tab *)

\* frame_spec_label(base_code, variant)
frame_spec_label(base_code, variant) ==
    IF variant = BASE THEN base_code ELSE variant \o <<" ">> \o base_code

\* the entries of one cost code in the spec selector, one for every variant
OptionsOfCostCode(cc) ==
    [i \in 1..Len(variants_for_cc(Get(cc, "alts", <<>>))) |->
        [lab |-> frame_spec_label(CodeOf(cc), variants_for_cc(Get(cc, "alts", <<>>))[i]),
         sid |-> frame_spec_id(CodeOf(cc), variants_for_cc(Get(cc, "alts", <<>>))[i])]]

RECURSIVE OptionsFrom(_, _)
OptionsFrom(ccs, i) ==
    IF i > Len(ccs) THEN <<>>
    ELSE IF CodeOf(ccs[i]) = <<>> THEN OptionsFrom(ccs, i + 1)
    ELSE OptionsOfCostCode(ccs[i]) \o OptionsFrom(ccs, i + 1)

\* the entries fs_refresh_spec_options() lists: the cost codes in the order of
\* their codes, those of a blank code left out
SpecOptions(jb) == OptionsFrom(SortedByCode(Get(jb, "cost_codes", <<>>)), 1)

\* fs_label_to_spec as fs_refresh_spec_options() fills it: a label stored
\* twice keeps the spec id stored last
LabelToSpec(opts) ==
    [lab \in {opts[i].lab : i \in DOMAIN opts} |->
        opts[SetMax({i \in DOMAIN opts : opts[i].lab = lab})].sid]

\* fs_spec_var after fs_refresh_spec_options(): a text that is no label gives
\* way to the first label, and to the blank text when there is no label
SpecVarRefreshed(opts, var) ==
    IF opts = <<>> THEN <<>>
    ELSE IF \E i \in DOMAIN opts : opts[i].lab = var THEN var
    ELSE opts[1].lab

\* the most sections the user adds
MaxAdds == 3

CodeA == <<"A">>
CodeAlt1A == <<"A", "L", "T", "1", " ", "A">>

\* the job files opened in the frame schedule tab: those of EditJobs, one
\* without cost codes, one whose only cost code has a blank code, and one in
\* which the alternate 1 of the code A and the code "ALT1 A" carry one label
AddSectionJobs ==
    EditJobs \cup
    { [id |-> 9, job_name |-> <<"J">>],
      [id |-> 9, job_name |-> <<"J">>, cost_codes |-> <<CostCode(1, <<" ">>, <<1>>)>>],
      [id |-> 9, job_name |-> <<"J">>,
       cost_codes |-> <<CostCode(1, CodeA, <<1>>), CostCode(2, CodeAlt1A, <<>>)>>] }

\* the window with the frame schedule tab shown: ensure_frame_initialized
\* fills the selector and selects its first entry
InitAddSection ==
    /\ \E raw \in AddSectionJobs :
          job = sections_shown(Call("opened", raw), <<>>)
    /\ \E opts \in {SpecOptions(job)} :
          ui = [edits |-> 0, undo_stack |-> <<>>,
                section_ui |-> section_uis(job, <<>>, FALSE),
                fs_spec_var |-> SpecVarRefreshed(opts, <<>>),
                chosen |-> IF opts = <<>> THEN <<>> ELSE opts[1].sid]
    /\ probe = [op |-> "open"]
    /\ result = 0
    /\ pc = "opened"

\* the user picks entry i of the selector
SelectSpec(i) ==
    /\ i \in DOMAIN SpecOptions(job)
    /\ ui' = [ui EXCEPT !.fs_spec_var = SpecOptions(job)[i].lab,
                        !.chosen = SpecOptions(job)[i].sid]
    /\ probe' = [op |-> "select"]
    /\ pc' = "selected"
    /\ UNCHANGED <<job, result>>

\* fs_add_schedule_section()
AddScheduleSection ==
    /\ ui.edits < MaxAdds
    /\ \E opts \in {SpecOptions(job)} :
       \E lab \in {strip(SpecVarRefreshed(opts, ui.fs_spec_var))} :
          IF lab = <<>>
          THEN /\ result' = [error |-> "Select a spec first"]
               /\ job' = job
               /\ ui' = [ui EXCEPT !.edits = @ + 1, !.fs_spec_var = lab]
          ELSE IF lab \notin DOMAIN LabelToSpec(opts)
          THEN /\ result' = [error |-> "Invalid spec selection"]
               /\ job' = job
               /\ ui' = [ui EXCEPT !.edits = @ + 1]
          ELSE \E jb \in {Call("section_added", <<job, LabelToSpec(opts)[lab]>>)} :
                  /\ result' = [error |-> ""]
                  /\ job' = sections_shown(jb, ui.section_ui)
                  /\ ui' = [ui EXCEPT !.edits = @ + 1,
                                      !.undo_stack = push_undo(@, job),
                                      !.section_ui = section_uis(jb, @, FALSE)]
    /\ probe' = [op |-> "add_section", before |-> job, stack |-> ui.undo_stack,
                 chosen |-> ui.chosen]
    /\ pc' = "add attempted"

NextAddSection ==
    \/ \E i \in 1..MaxAlts : SelectSpec(i)
    \/ AddScheduleSection

SpecAddSection == InitAddSection /\ [][NextAddSection]_vars

\* the sections a job holds under a spec id, none when the key is missing
SectionsAt(jb, spec_id) ==
    IF spec_id \in DOMAIN jb["frame_schedules"]
    THEN jb["frame_schedules"][spec_id].v ELSE <<>>

\* from one job to the next, one default section was appended under spec_id
\* and the sections under every other spec id stayed
OneDefaultSectionAppended(before, after, spec_id) ==
    /\ \E id \in (IdsOf(after) \ IdsOf(before)) :
          SectionsAt(after, spec_id) =
              Append(SectionsAt(before, spec_id),
                     PyDict(default_schedule_section(spec_id, id)))
    /\ \A k \in (DOMAIN before["frame_schedules"] \cup DOMAIN after["frame_schedules"])
                    \ {spec_id} :
          SectionsAt(after, k) = SectionsAt(before, k)

\* C28: adding a frame-schedule section when no spec is selected or the
\* selection is no valid spec reports a validation error and changes
\* nothing: the job (frame schedules, rollups) and the undo stack are as
\* before; a successful add appends exactly one default section under the
\* selected valid spec id.
C28_AddSectionValidatesThenAppendsOne ==
    (pc = "add attempted") =>
        IF probe.chosen \notin build_valid_frame_spec_ids(probe.before)
        THEN /\ result.error # ""
             /\ job = probe.before
             /\ ui.undo_stack = probe.stack
        ELSE /\ result.error = ""
             /\ OneDefaultSectionAppended(probe.before, job, probe.chosen)

\* the failed attempt alone: an error is reported and nothing changes
C28_FailedAddChangesNothing ==
    (pc = "add attempted" /\ result.error # "") =>
        /\ probe.chosen \notin build_valid_frame_spec_ids(probe.before)
        /\ job = probe.before
        /\ ui.undo_stack = probe.stack

\* the successful add where no two entries of the selector carry one label
C28_AddUnderDistinctLabels ==
    (pc = "add attempted" /\ result.error = ""
        /\ \A i, j \in DOMAIN SpecOptions(probe.before) :
              SpecOptions(probe.before)[i].lab = SpecOptions(probe.before)[j].lab
                  => i = j)
        => OneDefaultSectionAppended(probe.before, job, probe.chosen)

-----------------------------------------------------------------------------
(* compute_frame_schedule_rollups on the sections a job file holds *)

\* the sections of the job files: the default section; a section whose row was
\* never calculated and whose total was never stored; the same section as a
\* saved job holds it; a sealants line with a blank factor; a stored total
\* that the materials do not give
RollupSections(spec_id, id) ==
    { default_schedule_section(spec_id, id),
      [default_schedule_section(spec_id, id)
          EXCEPT !.rows = PyList(<<PyDict(Row(<<"2">>, T_36, T_48))>>),
                 !.materials = PyList(<<TieBack(T_10)>>)],
      Call("recompute_section_totals",
           [default_schedule_section(spec_id, id)
               EXCEPT !.rows = PyList(<<PyDict(Row(<<"2">>, T_36, T_48))>>),
                      !.materials = PyList(<<TieBack(T_10)>>)]),
      [default_schedule_section(spec_id, id)
          EXCEPT !.materials =
                    PyList(<<Material("sealants", "Joint Sealants", "caulk_lf_subtotal",
                                      <<>>, T_12_00, "Sausage")>>)],
      [default_schedule_section(spec_id, id) EXCEPT !.install_material_total = 7] }

\* the lists a spec id holds: no section, or one of RollupSections
RollupLists(spec_id, id) ==
    {PyList(<<>>)} \cup {PyList(<<PyDict(s)>>) : s \in RollupSections(spec_id, id)}

\* the rollups of the job files: the key missing, or a total stored earlier
RawRollups ==
    { <<>>,
      [frame_schedule_rollups |->
          (frame_spec_id(StaleCode, BASE) :> [install_material_total |-> 7])] }

InitRollups ==
    /\ \E a \in RollupLists(frame_spec_id(Code_08_11_00, BASE), 3),
          b \in RollupLists(frame_spec_id(Code_08_11_00, ALT1), 4),
          r \in RawRollups :
          job = [id |-> MaxRawId, job_name |-> <<"J">>,
                 cost_codes |-> <<CostCode(1, Code_08_11_00, <<1>>)>>,
                 quotes |-> (Code_08_11_00 :>
                                PyDict(BASE :> <<Quote(100, 100)>>
                                       @@ ALT1 :> <<Quote(250, 250)>>)),
                 bid_sheet |-> (frame_spec_id(Code_08_11_00, BASE) :>
                                   [markup_pct |-> T_10]),
                 frame_schedules |->
                    (frame_spec_id(Code_08_11_00, BASE) :> a
                     @@ frame_spec_id(Code_08_11_00, ALT1) :> b)] @@ r
    /\ probe = job
    /\ result = 0
    /\ pc = "loaded"
    /\ ui = NoUI

\* compute_frame_schedule_rollups(job)
ComputeRollups ==
    /\ pc = "loaded"
    /\ job' = Call("compute_frame_schedule_rollups", job)
    /\ probe' = job
    /\ pc' = "computed"
    /\ UNCHANGED <<ui, result>>

\* compute_frame_schedule_rollups(job) a second time
ComputeRollupsAgain ==
    /\ pc = "computed"
    /\ job' = Call("compute_frame_schedule_rollups", job)
    /\ probe' = job
    /\ pc' = "computed again"
    /\ UNCHANGED <<ui, result>>

NextRollups == ComputeRollups \/ ComputeRollupsAgain

SpecRollups == InitRollups /\ [][NextRollups]_vars

\* two jobs hold the same under every key but the rollup map
SameButRollups(a, b) ==
    /\ DOMAIN a \ {"frame_schedule_rollups"} = DOMAIN b \ {"frame_schedule_rollups"}
    /\ \A k \in DOMAIN a \ {"frame_schedule_rollups"} : a[k] = b[k]

\* C29: compute_frame_schedule_rollups writes only the rollup map: the cost
\* codes, the quotes, the bid sheet and the frame schedules (rows, derived row
\* fields, materials and their factors, install_material_total of a section)
\* are after the call what they were before it.
C29_RollupsWriteOnlyTheRollupMap ==
    pc \in {"computed", "computed again"} => SameButRollups(job, probe)

\* all but the frame schedules are left as they were
C29_OtherKeysLeft ==
    pc \in {"computed", "computed again"} =>
        \A k \in DOMAIN probe \ {"frame_schedule_rollups", "frame_schedules"} :
            k \in DOMAIN job /\ job[k] = probe[k]

\* a second call changes nothing but the rollup map
C29_SecondCallLeavesTheSections ==
    pc = "computed again" => job = probe
-----------------------------------------------------------------------------
(* normalize_frame_schedules on the frame schedules a job file holds *)

\* what a job file holds in the place of a material when it is no dict
NoMaterial == PyNone

\* normalize_frame_schedules(job) raises AttributeError: the loop that fills
\* the sealants factor calls m.get on a material that is no dict
normalize_frame_schedules_raises(jb0) ==
    (CHOOSE it \in {
        \E k \in build_valid_frame_spec_ids(jb) :
            \E s \in Range(AsSectionList(Kept(fs, k), k, 0)) :
                /\ isinstance(s, "dict")
                /\ \E m \in Range(ListOr(s.v, "materials")) : m = NoMaterial
      : jb \in {jb0},
        fs \in {LegacyMigrated(Get(jb0, "frame_schedules", <<>>),
                               KeySeq(DOMAIN Get(jb0, "frame_schedules", <<>>)), 1)}} : TRUE)

\* how many shapes ScheduleShape tells apart
ScheduleShapes == 11

\* what a job file holds under a spec id: None; a number; no section; a legacy
\* dict; a section that is no dict; an empty dict; rows and materials that are
\* no lists; empty rows and materials; a row that is no dict beside a partial
\* row, under a foreign spec_id; a whole section; a material that is no dict
ScheduleShape(i, spec_id) ==
    CASE i = 1 -> PyNone
      [] i = 2 -> PyInt
      [] i = 3 -> PyList(<<>>)
      [] i = 4 -> PyDict([rows |-> PyList(<<PyDict([qty |-> <<"2">>])>>)])
      [] i = 5 -> PyList(<<PyNone>>)
      [] i = 6 -> PyList(<<PyDict(<<>>)>>)
      [] i = 7 -> PyList(<<PyDict([rows |-> PyNone, materials |-> PyDict(<<>>)])>>)
      [] i = 8 -> PyList(<<PyDict([rows |-> PyList(<<>>), materials |-> PyList(<<>>)])>>)
      [] i = 9 -> PyList(<<PyDict([id |-> 3, spec_id |-> frame_spec_id(StaleCode, BASE),
                                    rows |-> PyList(<<PyNone,
                                                      PyDict([qty |-> <<"2">>,
                                                              width |-> T_36])>>),
                                    materials |-> PyList(<<TieBack(T_10)>>)])>>)
      [] i = 10 -> PyList(<<PyDict(default_schedule_section(spec_id, 4))>>)
      [] i = 11 -> PyList(<<PyDict([materials |-> PyList(<<NoMaterial>>)])>>)

InitNormSchedules ==
    /\ \E a \in 1..ScheduleShapes, b \in 1..ScheduleShapes :
          job = [id |-> MaxRawId, job_name |-> <<"J">>,
                 cost_codes |-> <<CostCode(1, Code_08_11_00, <<1>>)>>,
                 frame_schedules |->
                    (frame_spec_id(Code_08_11_00, BASE) :>
                        ScheduleShape(a, frame_spec_id(Code_08_11_00, BASE))
                     @@ frame_spec_id(Code_08_11_00, ALT1) :>
                        ScheduleShape(b, frame_spec_id(Code_08_11_00, ALT1)))]
    /\ probe = job
    /\ result = [raised |-> FALSE]
    /\ pc = "loaded"
    /\ ui = NoUI

\* normalize_frame_schedules(job)
NormalizeSchedules ==
    /\ pc = "loaded"
    /\ IF normalize_frame_schedules_raises(job)
       THEN result' = [raised |-> TRUE] /\ job' = job
       ELSE result' = [raised |-> FALSE]
            /\ job' = Call("normalize_frame_schedules", job)
    /\ probe' = job
    /\ pc' = "normalized"
    /\ UNCHANGED ui

\* normalize_frame_schedules(job) on the job it left
NormalizeSchedulesAgain ==
    /\ pc = "normalized"
    /\ ~result.raised
    /\ job' = Call("normalize_frame_schedules", job)
    /\ probe' = job
    /\ pc' = "normalized again"
    /\ UNCHANGED <<ui, result>>

NextNormSchedules == NormalizeSchedules \/ NormalizeSchedulesAgain

SpecNormSchedules == InitNormSchedules /\ [][NextNormSchedules]_vars

\* a section is well formed under the key k
WellFormedSection(s, k) ==
    /\ isinstance(s, "dict")
    /\ {"id", "spec_id", "rows", "materials"} \subseteq DOMAIN s.v
    /\ s.v["spec_id"] = k
    /\ isinstance(s.v["rows"], "list")
    /\ s.v["rows"].v # <<>>
    /\ \A r \in Range(s.v["rows"].v) :
          isinstance(r, "dict") /\ RowFields \subseteq DOMAIN r.v
    /\ isinstance(s.v["materials"], "list")
    /\ s.v["materials"].v # <<>>

\* rows and materials that were no list or empty are the default ones after
RepairedSection(before, after) ==
    /\ (~isinstance(before, "dict") \/ ListOr(before.v, "rows") = <<>>)
          => after.v["rows"] = PyList(<<PyDict(default_schedule_row)>>)
    /\ (~isinstance(before, "dict") \/ ListOr(before.v, "materials") = <<>>)
          => after.v["materials"] = PyList(default_materials)

\* every section of the job is well formed, and repaired where the list it
\* came from is the list the job held before
SectionsWellFormed(before, after) ==
    \A k \in DOMAIN after["frame_schedules"] :
        /\ isinstance(after["frame_schedules"][k], "list")
        /\ \A i \in DOMAIN after["frame_schedules"][k].v :
              /\ WellFormedSection(after["frame_schedules"][k].v[i], k)
              /\ (k \in DOMAIN before["frame_schedules"]
                    /\ isinstance(before["frame_schedules"][k], "list"))
                    => RepairedSection(before["frame_schedules"][k].v[i],
                                       after["frame_schedules"][k].v[i])

\* C30: after normalize_frame_schedules every section under every spec id is
\* well formed whatever shape it had before: a record with an id, a spec_id
\* equal to the key it is stored under, a non-empty list of rows each having
\* every default row field, and a non-empty list of materials; rows that were
\* no list or empty are one default row, materials that were no list or empty
\* are the template material set.
C30_SectionsWellFormedAfterNormalize ==
    pc \in {"normalized", "normalized again"} =>
        /\ ~result.raised
        /\ SectionsWellFormed(probe, job)

\* the same where normalize_frame_schedules returns
C30_WellFormedWhereItReturns ==
    (pc \in {"normalized", "normalized again"} /\ ~result.raised)
        => SectionsWellFormed(probe, job)
-----------------------------------------------------------------------------
(* Legacy shapes of a job file: a quotes bucket that is a list, frame        *)
(* schedules under the bare code                                             *)

\* the turn of one legacy key raises AttributeError: the value under
\* <base>||BASE, on which extend or append is called, is no list
LegacyKeyRaises(fs, key) ==
    /\ FindBars(key) = 0
    /\ strip(key) # <<>>
    /\ frame_spec_id(strip(key), BASE) \in DOMAIN fs
    /\ isinstance(fs[key], "list") \/ isinstance(fs[key], "dict")
    /\ ~isinstance(fs[frame_spec_id(strip(key), BASE)], "list")

\* the migration of the keys i.. of keys raises at one of their turns
RECURSIVE LegacyMigrationRaises(_, _, _)
LegacyMigrationRaises(fs, keys, i) ==
    IF i > Len(keys) THEN FALSE
    ELSE IF LegacyKeyRaises(fs, keys[i]) THEN TRUE
    ELSE LegacyMigrationRaises(LegacyKeyMoved(fs, keys[i]), keys, i + 1)

\* ensure_job_defaults(job) raises in the migration of the legacy keys
ensure_job_defaults_raises(jb) ==
    LegacyMigrationRaises(Get(jb, "frame_schedules", <<>>),
                          KeySeq(DOMAIN Get(jb, "frame_schedules", <<>>)), 1)

\* a section as a legacy job file holds it: rows only, the first of qty q
LegacySection(q) == PyDict([rows |-> PyList(<<PyDict(Row(q, T_36, T_48))>>)])

\* how many shapes LegacyShape tells apart
LegacyShapes == 5

\* what a legacy job file holds under a key of the frame schedules: nothing;
\* a list of two sections; one section as a dict; None; an empty list
LegacyShape(i, q) ==
    CASE i = 1 -> <<>>
      [] i = 2 -> <<PyList(<<LegacySection(q), LegacySection(T_10)>>)>>
      [] i = 3 -> <<LegacySection(q)>>
      [] i = 4 -> <<PyNone>>
      [] i = 5 -> <<PyList(<<>>)>>

\* the frame schedules with what LegacyShape holds stored under key
StoredUnder(key, shape) == IF shape = <<>> THEN <<>> ELSE (key :> shape[1])

\* the quotes of a legacy job file: none; a list under the code; an empty list
\* under the code; the variants of today under the code
LegacyQuotes ==
    { <<>>,
      [quotes |-> (Code_08_11_00 :> PyList(<<Quote(100, 100), Quote(250, 250)>>))],
      [quotes |-> (Code_08_11_00 :> PyList(<<>>))],
      [quotes |-> (Code_08_11_00 :> PyDict(BASE :> <<Quote(70, 70)>>))] }

InitLegacy ==
    /\ \E q \in LegacyQuotes, a \in 1..LegacyShapes, b \in 1..LegacyShapes :
          job = [id |-> MaxRawId, job_name |-> <<"J">>,
                 cost_codes |-> <<CostCode(1, Code_08_11_00, <<1>>)>>,
                 frame_schedules |->
                    StoredUnder(Code_08_11_00, LegacyShape(a, <<"2">>))
                    @@ StoredUnder(frame_spec_id(Code_08_11_00, BASE),
                                   LegacyShape(b, <<"3">>))] @@ q
    /\ probe = job
    /\ result = [raised |-> FALSE]
    /\ pc = "loaded"
    /\ ui = NoUI

\* ensure_job_defaults(job) on the legacy job file
NormalizeLegacy ==
    /\ pc = "loaded"
    /\ IF ensure_job_defaults_raises(job)
       THEN result' = [raised |-> TRUE] /\ job' = job
       ELSE result' = [raised |-> FALSE]
            /\ job' = Call("ensure_job_defaults", job)
    /\ probe' = job
    /\ pc' = "normalized"
    /\ UNCHANGED ui

\* ensure_job_defaults(job) on the job it left
NormalizeLegacyAgain ==
    /\ pc = "normalized"
    /\ ~result.raised
    /\ job' = Call("ensure_job_defaults", job)
    /\ pc' = "normalized again"
    /\ UNCHANGED <<ui, result, probe>>

NextLegacy == NormalizeLegacy \/ NormalizeLegacyAgain

SpecLegacy == InitLegacy /\ [][NextLegacy]_vars

\* the sections a job file holds under a key: those of a list, the one of a dict
SectionsHeld(fs, key) ==
    IF key \notin DOMAIN fs THEN <<>>
    ELSE IF isinstance(fs[key], "list") THEN fs[key].v
    ELSE IF isinstance(fs[key], "dict") THEN <<fs[key]>>
    ELSE <<>>

\* what the user typed into the rows of a section
TypedRows(s) ==
    [j \in DOMAIN s.v["rows"].v |->
        [f \in {"qty", "width", "height"} |-> s.v["rows"].v[j].v[f]]]

\* the sections of both keys are under code||BASE, those it held first
SectionsOfBothKept(before, after, code) ==
    \E want \in {SectionsHeld(before, frame_spec_id(code, BASE))
                    \o SectionsHeld(before, code)} :
        /\ code \notin DOMAIN after
        /\ Len(SectionsHeld(after, frame_spec_id(code, BASE))) = Len(want)
        /\ \A i \in DOMAIN want :
              TypedRows(SectionsHeld(after, frame_spec_id(code, BASE))[i])
                  = TypedRows(want[i])

\* C31: normalization migrates the legacy shapes without losing data: the
\* frame schedules under a bare code go under code||BASE and, when code||BASE
\* exists, the sections of both are under code||BASE; a quotes bucket that is
\* a list becomes {BASE: that list}, the same quotes in the same order.
C31_LegacyShapesMigratedWithoutLoss ==
    pc \in {"normalized", "normalized again"} =>
        /\ ~result.raised
        /\ SectionsOfBothKept(probe["frame_schedules"], job["frame_schedules"],
                              Code_08_11_00)
        /\ ("quotes" \in DOMAIN probe
                /\ isinstance(probe["quotes"][Code_08_11_00], "list")
                /\ probe["quotes"][Code_08_11_00].v # <<>>)
              => job["quotes"][Code_08_11_00].v[BASE] = probe["quotes"][Code_08_11_00].v

\* the same where the migration returns
C31_NoLossWhereItReturns ==
    (pc \in {"normalized", "normalized again"} /\ ~result.raised) =>
        /\ SectionsOfBothKept(probe["frame_schedules"], job["frame_schedules"],
                              Code_08_11_00)
        /\ ("quotes" \in DOMAIN probe
                /\ isinstance(probe["quotes"][Code_08_11_00], "list")
                /\ probe["quotes"][Code_08_11_00].v # <<>>)
              => job["quotes"][Code_08_11_00].v[BASE] = probe["quotes"][Code_08_11_00].v
-----------------------------------------------------------------------------
(* Edits and the undo that follows them *)

\* _start_edit.commit of the notes column of a bid-sheet line (lines 1619-1630):
\* the text goes into the entry of the spec id; push_undo() is not called
notes_committed(jb0, spec_id, text) ==
    (CHOOSE it \in {
        Put(jb, "bid_sheet",
            Put(jb["bid_sheet"], spec_id,
                Put(jb["bid_sheet"][spec_id], "notes", strip(text))))
      : jb \in {jb0}} : TRUE)

T_note == <<"o", "k">>

\* the window after the handler op that left the job jb; result keeps the job
\* as it was when the handler was entered
EditedAfter(jb0, pushed, op) ==
    /\ ui.edits < MaxEdits
    /\ \E jb \in {jb0} :
          /\ job' = sections_shown(jb, ui.section_ui)
          /\ ui' = [ui EXCEPT
                      !.edits = @ + 1,
                      !.undo_stack = IF pushed THEN push_undo(@, job) ELSE @,
                      !.section_ui = section_uis(jb, @, FALSE)]
    /\ result' = job
    /\ probe' = [op |-> op]
    /\ pc' = "edited"

AddCostCodeThen == EditedAfter(cost_code_added(job), TRUE, "add_cost_code")

DeleteQuoteThen(code, variant) ==
    EditedAfter(delete_quote(job, code, variant, 1), TRUE, "delete_quote")

AddSectionThen(spec_id) ==
    EditedAfter(Call("section_added", <<job, spec_id>>), TRUE, "add_section")

CommitNotesThen(spec_id) ==
    EditedAfter(notes_committed(job, spec_id, T_note), FALSE, "bid_sheet_notes")

\* undo() right after an edit
UndoTheEdit ==
    /\ pc = "edited"
    /\ IF ui.undo_stack = <<>>
       THEN UNCHANGED <<job, ui>>
       ELSE \E jb \in {Call("undone", ui.undo_stack[Len(ui.undo_stack)])} :
               /\ job' = sections_shown(jb, ui.section_ui)
               /\ ui' = [ui EXCEPT !.undo_stack = SubSeq(@, 1, Len(@) - 1),
                                   !.section_ui = section_uis(jb, @, TRUE)]
    /\ probe' = [op |-> "undo", edit |-> probe.op]
    /\ pc' = "undone"
    /\ UNCHANGED result

NextUndoEdits ==
    \/ AddCostCodeThen
    \/ \E b \in QuoteBuckets : DeleteQuoteThen(b[1], b[2])
    \/ \E spec_id \in build_valid_frame_spec_ids(job) : AddSectionThen(spec_id)
    \/ \E spec_id \in DOMAIN job["bid_sheet"] : CommitNotesThen(spec_id)
    \/ UndoTheEdit

SpecUndoEdits == InitEdit /\ [][NextUndoEdits]_vars

\* C32: every operation that mutates the job pushes a snapshot of the job onto
\* the undo stack before its first mutation, so that one undo returns the job
\* to its state just before the most recent edit.
C32_UndoReturnsToBeforeTheEdit ==
    pc = "undone" => job = result

\* the same for the edits whose handler calls push_undo()
C32_PushedEditsAreUndone ==
    (pc = "undone" /\ probe.edit # "bid_sheet_notes") => job = result
-----------------------------------------------------------------------------
(* The questions asked before something is deleted *)

\* a mistaken handler that goes on whatever the answer is
GoesOnUnasked(asked, yes) == TRUE

\* a handler goes on past its question: none was asked, or askyesno returned True
GoesOn(asked, yes) == ~asked \/ yes

\* _delete_row asks when the row has data: qty_populated, or a field that is
\* not blank
RowHasData(row) ==
    qty_populated(row) \/ \E k \in DOMAIN row : strip(row[k]) # <<>>

\* delete_material_row asks when the row has data; the label and the unit of
\* a free-form row stay blank here
MaterialHasData(m) ==
    \E k \in {"qty", "factor", "rate"} : strip(Get(m, k, <<>>)) # <<>>

\* the job files opened: those of EditJobs, and one whose section holds a
\* free-form material with data
AskJobs ==
    EditJobs \cup
    { [id |-> 9, job_name |-> <<"J">>,
       cost_codes |-> <<CostCode(1, Code_08_41_13, <<>>)>>,
       quotes |-> (Code_08_41_13 :> PyDict(BASE :> <<Quote(70, 70)>>)),
       frame_schedules |->
          (frame_spec_id(Code_08_41_13, BASE) :>
              PyList(<<PyDict([default_schedule_section(frame_spec_id(Code_08_41_13, BASE), 3)
                               EXCEPT !.rows = PyList(<<PyDict(Row(<<"2">>, T_36, T_48))>>),
                                      !.materials =
                                          PyList(<<TieBack(T_10),
                                                   [FreeMaterial(1) EXCEPT
                                                       !.qty = T_10, !.rate = T_2_00]>>)])>>))] }

InitAsk ==
    /\ \E raw \in AskJobs :
          job = sections_shown(Call("opened", raw), <<>>)
    /\ ui = [edits |-> 0, undo_stack |-> <<>>,
             section_ui |-> section_uis(job, <<>>, FALSE)]
    /\ probe = [op |-> "open"]
    /\ result = 0
    /\ pc = "opened"

\* a handler that asks (or not) and, when it goes on, calls push_undo() and
\* leaves the job jb and the section UIs uis
Asked(op, asked, yes, jb, uis) ==
    /\ ui.edits < MaxEdits
    /\ IF GoesOn(asked, yes)
       THEN /\ job' = jb
            /\ ui' = [ui EXCEPT !.edits = @ + 1,
                                !.undo_stack = push_undo(@, job),
                                !.section_ui = uis]
       ELSE /\ job' = job
            /\ ui' = [ui EXCEPT !.edits = @ + 1]
    /\ probe' = [op |-> op, asked |-> asked, yes |-> yes, before |-> job,
                 stack |-> ui.undo_stack]
    /\ pc' = "asked"
    /\ UNCHANGED result

\* delete_selected_cost_code()
AskDeleteCostCode(cc_id, yes) ==
    \E jb \in {IF yes THEN cost_code_deleted(job, cc_id) ELSE job} :
        Asked("delete_cost_code", TRUE, yes,
              sections_shown(jb, ui.section_ui), section_uis(jb, ui.section_ui, FALSE))

\* _remove_schedule() of a section UI
AskRemoveSchedule(sid, yes) ==
    /\ ui.section_ui[sid].spec_id \in DOMAIN job["frame_schedules"]
    /\ \E jb \in {IF yes THEN delete_section(job, ui.section_ui[sid].spec_id, sid)
                  ELSE job} :
          Asked("remove_schedule", TRUE, yes,
                sections_shown(jb, ui.section_ui), section_uis(jb, ui.section_ui, FALSE))

\* _delete_row(0) of a section UI
AskDeleteRow(sid, yes) ==
    \E asked \in {RowHasData(SectionOf(job, sid)["rows"].v[1].v)} :
    \E jb \in {IF GoesOn(asked, yes) THEN Call("delete_row", <<job, sid, 1>>) ELSE job} :
        Asked("delete_row", asked, yes, jb, ui.section_ui)

\* delete_material_row(index) of a section UI, on a free-form row
AskDeleteMaterial(sid, index, yes) ==
    /\ index <= Len(SectionOf(job, sid)["materials"].v)
    /\ IsFreeMaterial(SectionOf(job, sid)["materials"].v[index])
    /\ \E asked \in {MaterialHasData(SectionOf(job, sid)["materials"].v[index])} :
       \E jb \in {IF GoesOn(asked, yes)
                  THEN Call("material_deleted", <<job, sid, index>>) ELSE job} :
          Asked("delete_material", asked, yes, jb, ui.section_ui)

NextAsk ==
    \/ \E cc_id \in CostCodeIds, yes \in BOOLEAN : AskDeleteCostCode(cc_id, yes)
    \/ \E sid \in DOMAIN ui.section_ui, yes \in BOOLEAN : AskRemoveSchedule(sid, yes)
    \/ \E sid \in DOMAIN ui.section_ui, yes \in BOOLEAN : AskDeleteRow(sid, yes)
    \/ \E sid \in DOMAIN ui.section_ui, yes \in BOOLEAN : AskDeleteMaterial(sid, 2, yes)

SpecAsk == InitAsk /\ [][NextAsk]_vars

\* C33: a destructive operation whose confirmation prompt is declined (delete
\* cost code, remove schedule section, delete a row that has data, delete a
\* material row that has data) leaves the job and the undo stack as they were
\* before the operation was requested.
C33_DeclinedPromptChangesNothing ==
    (pc = "asked" /\ probe.asked /\ ~probe.yes) =>
        /\ job = probe.before
        /\ ui.undo_stack = probe.stack

\* the deletion of a row that has data was declined after an earlier deletion
\* went on: the row is there and the stack holds the one snapshot
C33_RowDeletionDeclined ==
    /\ pc = "asked"
    /\ probe.op = "delete_row"
    /\ probe.asked
    /\ ~probe.yes
    /\ ui.undo_stack # <<>>
    /\ \E sid \in SectionIdsOf(job) : qty_populated(SectionOf(job, sid)["rows"].v[1].v)
    /\ job = probe.before
-----------------------------------------------------------------------------
(* Caulk passes *)

\* the rows of the sections of a job
RowsOfJob(jb) ==
    UNION {Range(jb["frame_schedules"][p[1]].v[p[2]].v["rows"].v) : p \in Places(jb)}

\* a row with qty > 0 holds its caulk passes, and caulk_lf is ceil(perim x passes)
CaulkPassesHeld(row) ==
    FPos(safe_float(row["qty"])) =>
        IF strip(row["caulk_passes"]) = <<>> THEN FALSE
        ELSE IF ~FPos(safe_float(row["caulk_passes"])) THEN row["caulk_lf"] = <<>>
        ELSE row["caulk_lf"] =
                IntToText(roundup(FMul(FromInt(safe_int(row["perim"])),
                                       safe_float(row["caulk_passes"]))))

\* C34: once a field of a schedule row other than caulk_passes is populated, a
\* blank caulk_passes is set to 3, so that in every reachable job state no row
\* has qty > 0 and a blank caulk_passes, and caulk_lf is ceil(perim x
\* caulk_passes); for rows changed by edits and for rows that come through the
\* normalization of a loaded job.
C34_NoRowWithoutCaulkPasses ==
    \A r \in RowsOfJob(job) : CaulkPassesHeld(r.v)

\* after an edit of a row, a first row whose caulk passes are 3 has the caulk_lf
\* of three passes
C34_EditedRowHoldsCaulkPasses ==
    (pc = "edited" /\ probe.op = "edit_row") =>
        \A p \in Places(job) :
            \E rows \in {job["frame_schedules"][p[1]].v[p[2]].v["rows"].v} :
                (rows[1].v["caulk_passes"] = <<"3">>) => CaulkPassesHeld(rows[1].v)
-----------------------------------------------------------------------------
(* The blank row that follows the populated rows *)

\* the rows of a section that hold a qty
PopulatedRows(rows) == {i \in 1..Len(rows) : qty_populated(rows[i].v)}

\* the rows are at least max(1, populated + 1), so that one row has a blank qty
BlankRowFollows(rows) ==
    /\ Len(rows) >= SetMax({1, Cardinality(PopulatedRows(rows)) + 1})
    /\ \E i \in 1..Len(rows) : ~qty_populated(rows[i].v)

-----------------------------------------------------------------------------
(* The quotes of the valid spec ids through the normalization *)

\* the (code, variant) pairs of a valid spec id whose bucket in the loaded job
\* holds quotes; a legacy list under the code is the bucket of BASE
HeldBuckets ==
    { cv \in { <<c, v>> : c \in DOMAIN Get(probe, "quotes", <<>>),
                          v \in {BASE, ALT1, ALT2} } :
        /\ frame_spec_id(cv[1], cv[2]) \in build_valid_frame_spec_ids(job)
        /\ \E b \in {probe.quotes[cv[1]]} :
              \/ isinstance(b, "list") /\ cv[2] = BASE /\ b.v # <<>>
              \/ /\ isinstance(b, "dict")
                 /\ cv[2] \in DOMAIN b.v
                 /\ b.v[cv[2]] # <<>> }

\* the quotes the loaded job holds under a code and a variant
BucketBefore(code, variant) ==
    IF isinstance(probe.quotes[code], "list")
    THEN probe.quotes[code].v
    ELSE probe.quotes[code].v[variant]

\* the quotes under a code and a variant are those the loaded job held
BucketKept(code, variant) ==
    /\ code \in DOMAIN job.quotes
    /\ variant \in DOMAIN job.quotes[code].v
    /\ job.quotes[code].v[variant] = BucketBefore(code, variant)

\* no two cost codes of the loaded job have the same code
CodesDistinct ==
    \A i, j \in DOMAIN probe.cost_codes :
        (i # j /\ CodeOf(probe.cost_codes[i]) # <<>>)
            => CodeOf(probe.cost_codes[i]) # CodeOf(probe.cost_codes[j])

\* C36: normalize_quotes never drops or replaces the quotes of a valid spec
\* id: every (code, variant) with code||variant among the valid spec ids whose
\* bucket is a non-empty list before the call holds the same quotes in the
\* same order after it, also when several cost codes have the same code.
C36_QuotesOfValidSpecIdsKept ==
    pc = "normalized" =>
        \A cv \in HeldBuckets : BucketKept(cv[1], cv[2])

\* where the codes of the cost codes are distinct the quotes are kept
C36_KeptUnderDistinctCodes ==
    (pc = "normalized" /\ CodesDistinct) =>
        \A cv \in HeldBuckets : BucketKept(cv[1], cv[2])

\* the normalization kept the quotes of an alternate of a code no other cost
\* code has
C36_AlternateQuotesKept ==
    /\ pc = "normalized"
    /\ CodesDistinct
    /\ <<Code_08_11_00, ALT1>> \in HeldBuckets
    /\ BucketKept(Code_08_11_00, ALT1)
-----------------------------------------------------------------------------
(* The keys of the rollup map through the cost-code edits *)

\* C37: after every normalization pass the key set of the rollup map equals
\* the key set of the frame-schedules map, the valid spec ids: the rollup of
\* a spec id whose cost code or alternate was deleted or renamed does not
\* remain, after any sequence of cost-code adds, renames and deletes.
C37_RollupKeysAreTheScheduleKeys ==
    pc \in {"opened", "edited"} =>
        /\ DOMAIN job["frame_schedules"] = build_valid_frame_spec_ids(job)
        /\ DOMAIN job["frame_schedule_rollups"] = DOMAIN job["frame_schedules"]

\* the frame-schedules map has the valid spec ids as its keys, and each of them
\* has a rollup
C37_EveryScheduleKeyHasARollup ==
    pc \in {"opened", "edited"} =>
        /\ DOMAIN job["frame_schedules"] = build_valid_frame_spec_ids(job)
        /\ DOMAIN job["frame_schedules"] \subseteq DOMAIN job["frame_schedule_rollups"]
-----------------------------------------------------------------------------
(* The section UIs after an undo *)

\* a qty typed into the first row of the section sid that differs from the qty
\* the row of the job holds
TypedQty(sid, e) ==
    /\ e.key = "qty"
    /\ SectionOf(job, sid)["rows"].v[1].v["qty"] # e.text
    /\ EditRow(sid, 1, e)

\* C38: after an undo every section UI that stays open edits the section that
\* is in the job record: a row edit made after the undo on a section whose id
\* existed before and after it changes that section in job.frame_schedules,
\* not a detached copy from before the undo.
C38_EditsAfterUndoReachTheJob ==
    [][\A sid \in DOMAIN ui.section_ui, e \in RowEdits :
          TypedQty(sid, e) => SectionOf(job', sid) # SectionOf(job, sid)]_vars

\* a qty typed into a section UI that no undo has parted from the job changes
\* the section of the job
C38_EditsBeforeUndoReachTheJob ==
    [][\A sid \in DOMAIN ui.section_ui, e \in RowEdits :
          (ui.section_ui[sid].live /\ TypedQty(sid, e))
              => SectionOf(job', sid) # SectionOf(job, sid)]_vars
-----------------------------------------------------------------------------
(* The job tabs of the application and their autosave timers *)

\* Here job is the record in the file of the job in the jobs directory.  ui
\* holds App.jobs, the record load_jobs() read at the last refresh, and the
\* tabs open_job_tab made for the job, in the order they were opened: the
\* record a tab holds, the text of its Job Name entry, and whether the tab is
\* in the notebook.  Every tab has its autosave timer, which open_job_tab
\* starts on the root window; a record is a job name and the number of the
\* changes made to the job.
MaxTabs == 3
MaxChanges == 2

JobNames == {<<"J">>, <<" ">>}

\* collect_job_info_into_job, of which the job name is kept here
collect_job_info_into_job(tab) ==
    [tab EXCEPT !.job = [@ EXCEPT !.job_name = strip(tab.name_entry)]]

\* whether save_only() and save_and_close() go on to save_job: the job has a name
HasJobName(tab) == tab.job.job_name # <<>>

\* App.job_tabs: the tabs of the job that are in the notebook
OpenTabs == {i \in DOMAIN ui.tabs : ui.tabs[i].open}

InitTabs ==
    /\ job = [job_name |-> <<"J">>, change |-> 0]
    /\ ui = [jobs |-> job, tabs |-> <<>>]
    /\ probe = [op |-> "start"]
    /\ result = 0
    /\ pc = "listed"

\* App.open_selected: the tab of the job is selected if there is one, else
\* open_job_tab makes a tab on the record of App.jobs and starts its timer
OpenSelected ==
    /\ Len(ui.tabs) < MaxTabs
    /\ IF OpenTabs # {}
       THEN UNCHANGED ui
       ELSE ui' = [ui EXCEPT !.tabs = Append(@, [job |-> ui.jobs,
                                                  name_entry |-> ui.jobs.job_name,
                                                  open |-> TRUE])]
    /\ probe' = [op |-> "open_selected"]
    /\ pc' = "opened"
    /\ UNCHANGED <<job, result>>

\* the user changes the job in a tab of the notebook
ChangeJob(i) ==
    /\ ui.tabs[i].open
    /\ ui.tabs[i].job.change < MaxChanges
    /\ ui' = [ui EXCEPT !.tabs[i].job.change = @ + 1]
    /\ probe' = [op |-> "change", tab |-> i]
    /\ pc' = "edited"
    /\ UNCHANGED <<job, result>>

\* the user types into the Job Name entry of a tab of the notebook
TypeJobName(i, text) ==
    /\ ui.tabs[i].open
    /\ ui.tabs[i].name_entry # text
    /\ ui' = [ui EXCEPT !.tabs[i].name_entry = text]
    /\ probe' = [op |-> "job_name", tab |-> i]
    /\ pc' = "edited"
    /\ UNCHANGED <<job, result>>

\* autosave_tick of the tab i: the root window exists, so save_only() runs; it
\* returns before save_job while the job has no name; after save_job,
\* notebook.tab raises for a tab that is not in the notebook, and the tick
\* passes over the exception, so refresh_main runs for a tab of the notebook
\* only; the timer is started again
AutosaveTick(i) ==
    /\ \E tab \in {collect_job_info_into_job(ui.tabs[i])} :
          /\ job' = IF HasJobName(tab) THEN tab.job ELSE job
          /\ ui' = [ui EXCEPT
                      !.tabs[i] = tab,
                      !.jobs = IF HasJobName(tab) /\ tab.open THEN tab.job ELSE @]
          /\ probe' = [op |-> "autosave", tab |-> i, wrote |-> HasJobName(tab)]
    /\ pc' = "ticked"
    /\ UNCHANGED result

\* save_and_close of the tab i: an error without a job name; else save_job,
\* refresh_main and close_tab, which takes the tab out of the notebook
SaveAndClose(i) ==
    /\ ui.tabs[i].open
    /\ \E tab \in {collect_job_info_into_job(ui.tabs[i])} :
          IF HasJobName(tab)
          THEN /\ job' = tab.job
               /\ ui' = [ui EXCEPT !.tabs[i] = [tab EXCEPT !.open = FALSE],
                                   !.jobs = tab.job]
          ELSE /\ job' = job
               /\ ui' = [ui EXCEPT !.tabs[i] = tab]
    /\ probe' = [op |-> "save_and_close", tab |-> i]
    /\ pc' = "closed"
    /\ UNCHANGED result

NextTabs ==
    \/ OpenSelected
    \/ \E i \in DOMAIN ui.tabs : ChangeJob(i)
    \/ \E i \in DOMAIN ui.tabs, text \in JobNames : TypeJobName(i, text)
    \/ \E i \in DOMAIN ui.tabs : AutosaveTick(i)
    \/ \E i \in DOMAIN ui.tabs : SaveAndClose(i)

SpecTabs == InitTabs /\ [][NextTabs]_vars

\* C39: a closed job tab never writes the job file again: after a tab is
\* closed by save_and_close and the job is reopened and edited in a new tab,
\* every later autosave tick that writes the file writes the record of the
\* open tab, never the record the timer of the closed tab holds.
C39_ClosedTabNeverWritesTheFile ==
    (pc = "ticked" /\ probe.wrote /\ OpenTabs # {}) =>
        \A i \in OpenTabs : job = ui.tabs[i].job

\* a tick of the timer of a tab of the notebook writes the record of that tab
C39_TickOfAnOpenTabWritesItsRecord ==
    (pc = "ticked" /\ probe.wrote /\ probe.tab \in OpenTabs) =>
        job = ui.tabs[probe.tab].job
-----------------------------------------------------------------------------
(* The bid-sheet entries of a renamed cost code *)

\* a bid-sheet entry the user filled in
MarkedUp ==
    [markup_pct |-> T_10, markup_amt |-> <<>>, notes |-> T_note, color |-> "Yellow"]

\* the job files opened: those of EditJobs, with a bid sheet in which some of
\* the spec ids have an entry the user filled in
RenameJobs ==
    UNION { { raw @@ [bid_sheet |-> [spec_id \in filled |-> MarkedUp]] :
                filled \in SUBSET build_valid_frame_spec_ids(raw) } :
            raw \in EditJobs }

InitRename ==
    /\ \E raw \in RenameJobs :
          job = sections_shown(Call("opened", raw), <<>>)
    /\ ui = [edits |-> 0, undo_stack |-> <<>>,
             section_ui |-> section_uis(job, <<>>, FALSE)]
    /\ probe = [op |-> "open"]
    /\ result = 0
    /\ pc = "opened"

NextRename ==
    \E cc_id \in CostCodeIds, text \in CodeTexts : CommitCode(cc_id, text)

SpecRename == InitRename /\ [][NextRename]_vars

\* the code cell of a cost code was given a code that no cost code had
RenamedToUnused ==
    /\ pc = "edited"
    /\ probe.op = "rename"
    /\ probe.new_code # probe.old_code
    /\ \A i \in DOMAIN probe.before["cost_codes"] :
          CodeOf(probe.before["cost_codes"][i]) # probe.new_code

\* the variants of the renamed cost code, the one cost code of the new code
RenamedVariants ==
    UNION { Range(variants_for_cc(job["cost_codes"][i]["alts"])) :
            i \in {n \in DOMAIN job["cost_codes"] :
                      CodeOf(job["cost_codes"][n]) = probe.new_code} }

\* C40: renaming a cost code keeps its bid-sheet entries: after a rename from
\* A to an unused code B and the normalization of the bid sheet, the entry
\* under B||variant has the markup_pct, markup_amt, notes and color that the
\* entry under A||variant had before the rename, for every variant.
C40_RenameKeepsBidSheetEntries ==
    RenamedToUnused =>
        \A v \in RenamedVariants :
            /\ frame_spec_id(probe.new_code, v) \in DOMAIN job["bid_sheet"]
            /\ \A f \in {"markup_pct", "markup_amt", "notes", "color"} :
                  job["bid_sheet"][frame_spec_id(probe.new_code, v)][f]
                      = probe.before["bid_sheet"][frame_spec_id(probe.old_code, v)][f]

\* after the rename the new code has an entry for every variant, and each is
\* the entry of a spec id the bid sheet never had
C40_RenamedEntriesAreBlank ==
    RenamedToUnused =>
        \A v \in RenamedVariants :
            /\ frame_spec_id(probe.new_code, v) \in DOMAIN job["bid_sheet"]
            /\ job["bid_sheet"][frame_spec_id(probe.new_code, v)] = BidSheetRow(<<>>)
=============================================================================
